---- MODULE Spec2Model ----
(***************************************************************************)
(* A model of the memory lifecycle of CrowdCompanyBot: the importance      *)
(* scorer (src/src/importance_scorer.py), the hierarchy store              *)
(* (src/src/file_structure.py), the summarizer (src/src/summarizer.py),    *)
(* the conversation log (src/src/memory_manager_v2.py),                    *)
(* the context loader (src/src/context_loader.py) and the cleanup          *)
(* scheduler (src/src/cleanup_service.py).                                 *)
(*                                                                         *)
(* The specifications share the variables:                                 *)
(*   Spec        append_message, the passing of days and run_daily_cleanup *)
(*   SpecScore   score_conversation applied to bounded inputs              *)
(*   SpecLoad    load_context applied to bounded user directories          *)
(*   SpecLayout  ensure_v2_structure applied to bounded user directories   *)
(*   SpecSumm    soft_trim_daily_file and create_weekly_summary called     *)
(*               directly on a store                                       *)
(*   SpecLog     append_message, the passing of days and get_context       *)
(*   SpecFiles   archive_file, compress_file, decompress_file and          *)
(*               list_daily_files called directly                          *)
(*   SpecReset   reset_user on bounded user directories                    *)
(*   SpecMem     create_user, migrate_from_v1 and append_message on one    *)
(*               user directory                                            *)
(*   SpecLive    run_daily_cleanup with a completion service that may      *)
(*               never answer, under weak fairness                         *)
(*   SpecPar     run_daily_cleanup interleaved with append_message for     *)
(*               other users                                               *)
(*   SpecRetry   run_daily_cleanup repeated for ever, under weak fairness  *)
(***************************************************************************)
EXTENDS Integers, Sequences, FiniteSets, TLC

VARIABLES
    \* ---- importance scorer ----
    snippet,      \* the words of the snippet handed to score_conversation
    context,      \* the context dict: frequency_count, days_since_first_mention
    scoreResult,  \* the dict returned by score_conversation, or NoResult
    scorePath,    \* which return statement produced it
    llmCalls,     \* number of send_message calls made by the scorer
    scoreRaised,  \* TRUE when score_conversation let an exception escape
    \* ---- hierarchy store: the files below users/<id>/ ----
    today,        \* the current date, in days since Monday 2024-12-30
    created,      \* created[u]: users/<u>/ exists with memory.md and the V2 folders
    daily,        \* daily[u]: date |-> Daily File, for the files in daily/
    stray,        \* stray[u]: daily/ also holds notes.md, a name that is no date
    weekly,       \* weekly[u]: <<year, week>> |-> Weekly Summary in weekly/
    monthly,      \* monthly[u]: <<year, month>> |-> Monthly Summary in monthly/
    yearly,       \* yearly[u]: year |-> Yearly Summary in yearly/
    archive,      \* archive[u]: the subtrees archive/daily and archive/weekly, plain and .gz
    appended,     \* appended[u]: number of append_message calls made so far
    \* ---- cleanup scheduler ----
    pc,           \* position of run_daily_cleanup / _cleanup_user
    cleaned,      \* run_daily_cleanup has been started on the current date
    batch,        \* the user_ids run_daily_cleanup was called with
    queue,        \* user ids the loop of run_daily_cleanup has still to visit
    cur,          \* the user being processed (0: none)
    user_stats,   \* the stats dict of _cleanup_user
    stats,        \* the stats dict of run_daily_cleanup
    passLog,      \* the passes started so far in the current _cleanup_user call
    \* ---- context loader ----
    indexChars,   \* len of memory.md in characters (-1: the file does not exist)
    prefsChars,   \* len of important/preferences.md (-1: the file does not exist)
    queryLen,     \* len of the user_query load_context is called with
    loadResult,   \* the context dict returned by load_context, or NoContext
    selectCalls,  \* number of send_message calls made by the context loader
    \* ---- layout of one user directory ----
    tree,         \* path below users/<id>/ |-> what is there: a folder or a file's content
    ensureCalls,  \* number of ensure_v2_structure calls made
    \* ---- direct calls of the summarizer and of get_context ----
    summResult,   \* the last direct call of the summarizer: its arguments and outcome
    summCalls,    \* number of direct calls of the summarizer made
    logResult,    \* what get_context returned
    \* ---- direct calls of the store primitives ----
    disk,         \* archive/daily/ of one user: file name |-> the bytes of the file
    fsResult,     \* the last direct call of a store primitive: arguments and outcome
    fsCalls,      \* number of direct calls of store primitives made
    \* ---- reset_user ----
    backups,      \* users/<id>_backup_<timestamp>/: timestamp |-> the copy made
    now,          \* the wall clock, in seconds
    resetResult,  \* the last reset_user call: the directory before it and the outcome
    \* ---- create_user, migrate_from_v1 and append_message on one directory ----
    udir,         \* users/<id>/ as the memory manager sees it
    mmResult      \* the last call of the memory manager and the calls made

scoreVars == <<snippet, context, scoreResult, scorePath, llmCalls, scoreRaised>>
storeVars == <<today, created, daily, stray, weekly, monthly, yearly, archive, appended>>
runVars == <<pc, cleaned, batch, queue, cur, user_stats, stats, passLog>>

loadVars == <<indexChars, prefsChars, queryLen, loadResult, selectCalls>>
layoutVars == <<tree, ensureCalls>>
summVars == <<summResult, summCalls>>
logVars == <<logResult>>
fileVars == <<disk, fsResult, fsCalls>>
resetVars == <<backups, now, resetResult>>
memVars == <<udir, mmResult>>
\* the variables of the components that are exercised on their own
unitVars ==
    <<scoreVars, loadVars, layoutVars, summVars, logVars, fileVars, resetVars, memVars>>

vars == <<unitVars, storeVars, runVars>>

-----------------------------------------------------------------------------
(***************************************************************************)
(* Importance scorer                                                       *)
(***************************************************************************)

\* A snippet is modelled by the set of words it is made of.  Python's
\* `kw in text.lower()` is a substring test; Lower and Substrings tabulate
\* str.lower() and the substring relation for the words of the vocabulary.
Vocabulary ==
    {"Wetter", "wettervorhersage", "jetzt", "WICHTIG", "merke dir", "plan",
     "hasse", "projektentscheidung", "mein", "hallo"}

Lower(w) ==
    CASE w = "Wetter"  -> "wetter"
      [] w = "WICHTIG" -> "wichtig"
      [] OTHER         -> w

\* the keywords (of any keyword list of the scorer) contained in a lowered word
Substrings(w) ==
    CASE w = "wetter"              -> {"wetter"}
      [] w = "wettervorhersage"    -> {"wetter", "wettervorhersage"}
      [] w = "jetzt"               -> {"jetzt"}
      [] w = "wichtig"             -> {"wichtig", "ich"}
      [] w = "merke dir"           -> {"merke dir"}
      [] w = "plan"                -> {"plan"}
      [] w = "hasse"               -> {"hasse"}
      [] w = "projektentscheidung" -> {"projektentscheidung", "projekt"}
      [] w = "mein"                -> {"mein"}
      [] OTHER                     -> {}

\* kw in text.lower()
KwIn(kw, text) == \E w \in text : kw \in Substrings(Lower(w))

IMPORTANCE_KEYWORDS ==
    {"merke dir", "wichtig", "entscheidend", "nie vergessen",
     "projektentscheidung", "strategie", "plan", "ziel",
     "erinnere mich", "denk dran", "notiere"}

TEMPORARY_KEYWORDS ==
    {"tv-programm", "fernsehprogramm", "tv heute", "läuft heute",
     "wetter", "wettervorhersage", "temperatur heute",
     "nachrichten heute", "aktuell", "gerade", "jetzt"}

PREFERENCE_KEYWORDS == {"mag nicht", "interessiere mich nicht", "liebe", "hasse", "bevorzuge"}
PROJECT_KEYWORDS    == {"projekt", "ziel", "plan", "vorhabe", "möchte"}
PERSONAL_KEYWORDS   == {"ich", "mein", "meine"}

MaxWords == 2
Snippets == {s \in SUBSET Vocabulary : Cardinality(s) <= MaxWords}

\* context.get(key, default): Absent stands for a key that is not in the dict
Absent == [t |-> "absent", v |-> 0]
Num(n) == [t |-> "num", v |-> n]
Str    == [t |-> "str", v |-> 0]

FrequencyChoices == {Absent, Num(1), Num(2), Num(4), Num(10)}
DaysSinceChoices == {Absent, Num(0), Num(7), Num(8), Num(30), Num(31)}
Contexts == [frequency_count : FrequencyChoices, days_since_first_mention : DaysSinceChoices]

Get(d, key, default) == IF d[key].t = "absent" THEN default ELSE d[key].v

\* What send_message and the JSON it carries can be.
\*   raise   the call raises (network error, timeout, no such method)
\*   prose   text that json.loads rejects
\*   list    valid JSON that is not an object
\*   bare / fenced   a JSON object, plain or inside a ```json fence
\* A JSON object either carries in-range values in every field, or departs
\* from a well-formed object in exactly one field.
GoodValues(bound) == {Num(0), Num(bound)}
BadValues(bound) == {Absent, Str, Num(0 - 1), Num(bound + 1)}
FieldBound(f) ==
    CASE f = "score" -> 10
      [] f = "frequency_points" -> 3
      [] f = "recency_points" -> 2
      [] f = "explicit_points" -> 2
      [] f = "relevance_points" -> 3
NumericFields == <<"score", "frequency_points", "recency_points", "explicit_points", "relevance_points">>
FieldNames == {NumericFields[i] : i \in 1..Len(NumericFields)}

WellFormed == [kind |-> "bare", score |-> Num(1), frequency_points |-> Num(1),
               recency_points |-> Num(1), explicit_points |-> Num(1),
               relevance_points |-> Num(1),
               reasoning |-> TRUE, retention_recommendation |-> TRUE]

Objects ==
    [kind : {"bare"}, score : GoodValues(10), frequency_points : GoodValues(3),
     recency_points : GoodValues(2), explicit_points : GoodValues(2),
     relevance_points : GoodValues(3),
     reasoning : {TRUE}, retention_recommendation : {TRUE}]
    \cup {[WellFormed EXCEPT ![f] = b] : f \in FieldNames, b \in UNION {BadValues(FieldBound(g)) : g \in FieldNames}}
    \cup {[WellFormed EXCEPT !.reasoning = FALSE], [WellFormed EXCEPT !.retention_recommendation = FALSE]}

Replies ==
    {[WellFormed EXCEPT !.kind = k] : k \in {"raise", "prose", "list"}}
    \cup Objects
    \cup {[o EXCEPT !.kind = "fenced"] : o \in Objects}

NoResult == [score |-> 0 - 1, frequency_points |-> 0 - 1, recency_points |-> 0 - 1,
             explicit_points |-> 0 - 1, relevance_points |-> 0 - 1]

\* a keyword test on the text as written, without text.lower()
_is_temporary_fact_case_sensitive(text) ==
    \E kw \in TEMPORARY_KEYWORDS : \E w \in text : kw \in Substrings(w)

_is_temporary_fact(text) == \E kw \in TEMPORARY_KEYWORDS : KwIn(kw, text)

detect_explicit_markers(text) ==
    LET found == {kw \in IMPORTANCE_KEYWORDS : KwIn(kw, text)}
    IN  IF Cardinality(found) >= 2 THEN 2
        ELSE IF Cardinality(found) = 1 THEN 1
        ELSE 0

_fallback_score(text, ctx) ==
    LET freq == Get(ctx, "frequency_count", 0)
        frequency_points == IF freq >= 10 THEN 3
                            ELSE IF freq >= 4 THEN 2
                            ELSE IF freq >= 2 THEN 1
                            ELSE 0
        days_since == Get(ctx, "days_since_first_mention", 999)
        recency_points == IF days_since <= 7 THEN 2
                          ELSE IF days_since <= 30 THEN 1
                          ELSE 0
        explicit_points == detect_explicit_markers(text)
        relevance_points ==
            IF \E kw \in PREFERENCE_KEYWORDS : KwIn(kw, text) THEN 3
            ELSE IF \E kw \in PROJECT_KEYWORDS : KwIn(kw, text) THEN 2
            ELSE IF \E kw \in PERSONAL_KEYWORDS : KwIn(kw, text) THEN 1
            ELSE 0
    IN  [score |-> frequency_points + recency_points + explicit_points + relevance_points,
         frequency_points |-> frequency_points,
         recency_points |-> recency_points,
         explicit_points |-> explicit_points,
         relevance_points |-> relevance_points]

\* 0 <= value <= hi on a JSON value: "ok", "no", or "raise" (TypeError on a string)
InRange(x, hi) ==
    IF x.t = "str" THEN "raise"
    ELSE IF 0 <= x.v /\ x.v <= hi THEN "ok" ELSE "no"

\* the first check of the chain that does not pass decides
RECURSIVE RangeChain(_, _)
RangeChain(data, i) ==
    IF i > Len(NumericFields) THEN "ok"
    ELSE LET r == InRange(data[NumericFields[i]], FieldBound(NumericFields[i]))
         IN  IF r = "ok" THEN RangeChain(data, i + 1) ELSE r

\* a validation that checks the presence of the fields only
_validate_score_fields_only(data) ==
    IF \/ \E i \in 1..Len(NumericFields) : data[NumericFields[i]].t = "absent"
       \/ ~data.reasoning
       \/ ~data.retention_recommendation
    THEN "no"
    ELSE "ok"

\* "ok" (True), "no" (False) or "raise"
_validate_score(data) ==
    IF \/ \E i \in 1..Len(NumericFields) : data[NumericFields[i]].t = "absent"
       \/ ~data.reasoning
       \/ ~data.retention_recommendation
    THEN "no"
    ELSE RangeChain(data, 1)

\* _score_with_llm: "raise" or "ok" (the parsed dict is the reply itself)
_score_with_llm(reply) ==
    IF reply.kind \in {"raise", "prose", "list"} THEN "raise"
    \* logger.debug formats score_data['score'] and score_data['reasoning']
    ELSE IF reply.score.t = "absent" \/ ~reply.reasoning THEN "raise"
    ELSE "ok"

ResultOf(data) ==
    [score |-> data.score.v, frequency_points |-> data.frequency_points.v,
     recency_points |-> data.recency_points.v, explicit_points |-> data.explicit_points.v,
     relevance_points |-> data.relevance_points.v]

ZeroScore == [score |-> 0, frequency_points |-> 0, recency_points |-> 0,
              explicit_points |-> 0, relevance_points |-> 0]

\* score_conversation(snippet, context) against one behaviour of the service
score_conversation(reply) ==
    /\ scorePath = "none"
    /\ IF _is_temporary_fact(snippet)
       THEN /\ scoreResult' = ZeroScore
            /\ scorePath' = "temporary"
            /\ llmCalls' = llmCalls
       ELSE /\ llmCalls' = llmCalls + 1
            /\ IF _score_with_llm(reply) = "ok" /\ _validate_score(reply) = "ok"
               THEN /\ scoreResult' = ResultOf(reply)
                    /\ scorePath' = "llm"
               ELSE /\ scoreResult' = _fallback_score(snippet, context)
                    /\ scorePath' = "fallback"
    /\ scoreRaised' = FALSE
    /\ UNCHANGED <<snippet, context>>
    /\ UNCHANGED <<loadVars, layoutVars, summVars, logVars, fileVars, resetVars, memVars>>
    /\ UNCHANGED storeVars
    /\ UNCHANGED runVars

-----------------------------------------------------------------------------
(***************************************************************************)
(* Calendar.  Day 0 is Monday 2024-12-30, so that days 0..6 are ISO week   *)
(* 2025-W01, which spans the turn of the year, days 7..13 are 2025-W02     *)
(* and days 14..20 are 2025-W03.  The definitions hold for the dates       *)
(* 2024-01-01 .. 2025-12-28.                                               *)
(***************************************************************************)
Users == {1, 2}

StartDay == 18      \* Friday 2025-01-17
MaxDay == 20        \* the clock is advanced day by day up to this date
MaxAppends == 3     \* append_message calls in a behaviour

\* datetime.year of a date
Year(d) == IF d < 2 THEN 2024 ELSE 2025
\* datetime.isocalendar()[1] of a date
IsoWeek(d) == IF d < 0 THEN 53 + (d \div 7) ELSE (d \div 7) + 1

CumDays == <<0, 31, 59, 90, 120, 151, 181, 212, 243, 273, 304, 334>>
\* datetime(year, month, 1) as a day number
FirstOfMonth(y, m) ==
    IF y = 2024
    THEN (0 - 364) + CumDays[m] + (IF m > 2 THEN 1 ELSE 0)
    ELSE 2 + 365 * (y - 2025) + CumDays[m]

-----------------------------------------------------------------------------
(***************************************************************************)
(* Files.  A directory is a function from names to files.                  *)
(***************************************************************************)
EmptyDir == [x \in {} |-> 0]
Put(dir, name, file) == [x \in DOMAIN dir \cup {name} |-> IF x = name THEN file ELSE dir[x]]
PutAll(dir, files) == [x \in DOMAIN dir \cup DOMAIN files |-> IF x \in DOMAIN files THEN files[x] ELSE dir[x]]
Remove(dir, names) == [x \in DOMAIN dir \ names |-> dir[x]]

RECURSIVE SumBytes(_, _)
SumBytes(dir, names) ==
    IF names = {} THEN 0
    ELSE LET n == CHOOSE x \in names : TRUE
         IN  dir[n].bytes + SumBytes(dir, names \ {n})
DirBytes(dir) == SumBytes(dir, DOMAIN dir)

\* sizes, in bytes
DailyHeaderBytes == 76      \* the header _create_daily_file writes
EntryOverheadBytes == 44    \* a message_entry around its content
IndexBytes == 700           \* memory.md and important/preferences.md
SummaryBytes == 1000        \* a summary file
StrayBytes == 10            \* notes.md
MiB == 1048576
GiantBytes == 120 * MiB
GzBytes(b) == (b \div 4) + 20

\* the name notes.md; as a path it sorts after every YYYYMMDD.md
Stray == 1000000 + 0

RECURSIVE SortDesc(_)
SortDesc(S) ==
    IF S = {} THEN << >>
    ELSE LET m == CHOOSE x \in S : \A y \in S : y <= x
         IN  <<m>> \o SortDesc(S \ {m})

RECURSIVE Reverse(_)
Reverse(q) == IF q = << >> THEN << >> ELSE Reverse(Tail(q)) \o <<Head(q)>>

Last(q, n) == IF Len(q) <= n THEN q ELSE SubSeq(q, Len(q) - n + 1, Len(q))
Range(q) == {q[i] : i \in 1..Len(q)}

\* FileStructureManager.list_daily_files(user_id) without a date range:
\* every *.md of daily/, sorted by path, newest first
list_daily_files(u) ==
    IF ~created[u] THEN << >>
    ELSE SortDesc(DOMAIN daily[u] \cup (IF stray[u] THEN {Stray} ELSE {}))

\* FileStructureManager.is_v2_structure
is_v2_structure(u) == created[u]

\* FileStructureManager.archive_file(source, user, "daily") for the files `names`:
\* shutil.move renames the file onto archive/daily/<name>
archive_daily(arch, dir, names) ==
    [arch EXCEPT !.daily = PutAll(@, [n \in names |-> dir[n]])]

archive_weekly(arch, dir, names) ==
    [arch EXCEPT !.weekly = PutAll(@, [n \in names |-> dir[n]])]

\* the bytes below users/<u>/daily
DailyFolderBytes(u) ==
    DirBytes(daily[u]) + (IF stray[u] THEN StrayBytes ELSE 0)

\* FileStructureManager.get_structure_stats: total_size_bytes
total_size_bytes(u) ==
    IndexBytes + DailyFolderBytes(u)
    + DirBytes(weekly[u]) + DirBytes(monthly[u]) + DirBytes(yearly[u])
    + DirBytes(archive[u].daily) + DirBytes(archive[u].dailyGz)
    + DirBytes(archive[u].weekly) + DirBytes(archive[u].weeklyGz)

\* round(total_size_bytes / (1024 * 1024), 2), in hundredths of a MB
\* (round half to even, as Python rounds an exactly representable float)
total_size_mb(bytes) ==
    LET q == bytes \div MiB
        r == bytes % MiB
        n == (100 * r) \div MiB
        rest == (100 * r) % MiB
        up == IF 2 * rest > MiB THEN 1
              ELSE IF 2 * rest = MiB /\ n % 2 = 1 THEN 1
              ELSE 0
    IN  100 * q + n + up

MAX_DAILY_FOLDER_SIZE_MB == 20
ARCHIVE_COMPRESSION_AFTER_DAYS == 90
MONTHLY_SUMMARY_AFTER_DAYS == 30
WEEKLY_SUMMARY_AFTER_DAYS == 7
PROTECTED_RECENT_DAYS == 7
SOFT_TRIM_AFTER_DAYS == 1
TrimmedThresholdBytes == 2048

\* a check that also reports a user who has a Daily File older than the
\* weekly threshold
check_size_triggers_or_age(u) ==
    IF ~created[u] THEN FALSE
    ELSE \/ total_size_mb(total_size_bytes(u)) > 100 * 100
         \/ DailyFolderBytes(u) > MAX_DAILY_FOLDER_SIZE_MB * MiB
         \/ \E d \in DOMAIN daily[u] : d <= today - WEEKLY_SUMMARY_AFTER_DAYS

\* CleanupService.check_size_triggers
check_size_triggers(u) ==
    IF ~created[u] THEN FALSE
    ELSE \/ total_size_mb(total_size_bytes(u)) > 100 * 100
         \/ DailyFolderBytes(u) > MAX_DAILY_FOLDER_SIZE_MB * MiB

-----------------------------------------------------------------------------
(***************************************************************************)
(* Conversation log                                                        *)
(***************************************************************************)
MessageLengths == {20}

\* a Daily File: the turns readable in it, its size and its modification date
NewDailyFile == [turns |-> {}, bytes |-> DailyHeaderBytes, mtime |-> today]

RECURSIVE SumOver(_, _)
SumOver(f, S) ==
    IF S = {} THEN 0
    ELSE LET x == CHOOSE y \in S : TRUE IN f[x] + SumOver(f, S \ {x})
TotalAppended == SumOver(appended, Users)

\* MemoryManagerV2.append_message(u, role, content) with len(content) = n.
\* The turn gets the number of the call as its identity.
append_message(u, n) ==
    /\ pc = "idle"
    /\ TotalAppended < MaxAppends
    /\ u # 1 => ~created[u]     \* another user than 1 writes a first message at most
    /\ LET dir  == IF created[u] THEN daily[u] ELSE EmptyDir
           \* create_user writes today's file; _create_daily_file keeps an existing one
           file == IF created[u] /\ today \in DOMAIN dir THEN dir[today] ELSE NewDailyFile
       IN  daily' = [daily EXCEPT ![u] =
                        Put(dir, today,
                            [turns |-> file.turns \cup {appended[u] + 1},
                             bytes |-> file.bytes + EntryOverheadBytes + n,
                             mtime |-> today])]
    /\ created' = [created EXCEPT ![u] = TRUE]
    /\ appended' = [appended EXCEPT ![u] = @ + 1]
    /\ UNCHANGED <<today, stray, weekly, monthly, yearly, archive>>
    /\ UNCHANGED runVars
    /\ UNCHANGED unitVars

\* an append_message that writes the turn into the directory of the user the
\* daily job is working on
append_message_into_current(u, n) ==
    /\ pc \notin {"idle", "loop", "hung"}
    /\ u # cur
    /\ TotalAppended < MaxAppends
    /\ LET file == IF today \in DOMAIN daily[cur] THEN daily[cur][today] ELSE NewDailyFile
       IN  daily' = [daily EXCEPT ![cur] =
                        Put(@, today,
                            [turns |-> file.turns \cup {appended[u] + 1},
                             bytes |-> file.bytes + EntryOverheadBytes + n,
                             mtime |-> today])]
    /\ created' = [created EXCEPT ![u] = TRUE]
    /\ appended' = [appended EXCEPT ![u] = @ + 1]
    /\ UNCHANGED <<today, stray, weekly, monthly, yearly, archive>>
    /\ UNCHANGED runVars
    /\ UNCHANGED unitVars

\* MemoryManagerV2.append_message(u, role, content) called by the bot for a
\* user u while the daily job is inside _cleanup_user for another user
append_message_during_cleanup(u, n) ==
    /\ pc \notin {"idle", "loop", "hung"}
    /\ u # cur
    /\ TotalAppended < MaxAppends
    /\ LET dir  == IF created[u] THEN daily[u] ELSE EmptyDir
           file == IF created[u] /\ today \in DOMAIN dir THEN dir[today] ELSE NewDailyFile
       IN  daily' = [daily EXCEPT ![u] =
                        Put(dir, today,
                            [turns |-> file.turns \cup {appended[u] + 1},
                             bytes |-> file.bytes + EntryOverheadBytes + n,
                             mtime |-> today])]
    /\ created' = [created EXCEPT ![u] = TRUE]
    /\ appended' = [appended EXCEPT ![u] = @ + 1]
    /\ UNCHANGED <<today, stray, weekly, monthly, yearly, archive>>
    /\ UNCHANGED runVars
    /\ UNCHANGED unitVars

\* a day passes
Tick ==
    /\ pc = "idle"
    /\ today < MaxDay
    /\ today' = today + 1
    /\ UNCHANGED <<created, daily, stray, weekly, monthly, yearly, archive, appended>>
    /\ cleaned' = FALSE
    /\ UNCHANGED <<pc, batch, queue, cur, user_stats, stats, passLog>>
    /\ UNCHANGED unitVars

\* the bot is not used for ARCHIVE_COMPRESSION_AFTER_DAYS days in a row
Dormant ==
    /\ pc = "idle"
    /\ today = MaxDay
    /\ today' = today + ARCHIVE_COMPRESSION_AFTER_DAYS
    /\ UNCHANGED <<created, daily, stray, weekly, monthly, yearly, archive, appended>>
    /\ cleaned' = FALSE
    /\ UNCHANGED <<pc, batch, queue, cur, user_stats, stats, passLog>>
    /\ UNCHANGED unitVars

-----------------------------------------------------------------------------
(***************************************************************************)
(* Summarizer                                                              *)
(***************************************************************************)
\* What the completion service does to a soft-trim prompt: it fails, or it
\* answers with a text of `bytes` bytes in which the turns of the file can
\* (keep) or cannot be read any more.
TrimOutcomes ==
    {[ok |-> FALSE, bytes |-> 0, keep |-> FALSE],
     [ok |-> TRUE, bytes |-> 800, keep |-> TRUE],
     [ok |-> TRUE, bytes |-> 2500, keep |-> FALSE]}

\* a soft trim that empties the file before it asks the completion service
soft_trim_daily_file_truncating(file, out) ==
    IF ~out.ok THEN [turns |-> {}, bytes |-> 0, mtime |-> today]
    ELSE [turns |-> IF out.keep THEN file.turns ELSE {},
          bytes |-> out.bytes,
          mtime |-> today]

\* Summarizer.soft_trim_daily_file: the file after the call
soft_trim_daily_file(file, out) ==
    IF ~out.ok THEN file
    ELSE [turns |-> IF out.keep THEN file.turns ELSE {},
          bytes |-> out.bytes,
          mtime |-> today]

\* Summarizer.create_weekly_summary(daily_files, ...): the file written when
\* the completion call succeeds.  start_date and end_date are taken from the
\* first and the last element of the list as passed.
create_weekly_summary(daily_files) ==
    [created |-> today, first |-> daily_files[1], last |-> daily_files[Len(daily_files)],
     sources |-> Len(daily_files), mtime |-> today, bytes |-> SummaryBytes]

\* Summarizer.create_monthly_summary / create_yearly_summary: the file written
create_monthly_summary(files) ==
    [created |-> today, first |-> 0, last |-> 0, sources |-> Cardinality(files),
     mtime |-> today, bytes |-> SummaryBytes]

create_yearly_summary(files) ==
    [created |-> today, first |-> 0, last |-> 0, sources |-> Cardinality(files),
     mtime |-> today, bytes |-> SummaryBytes]

-----------------------------------------------------------------------------
(***************************************************************************)
(* Cleanup scheduler                                                       *)
(***************************************************************************)
ZeroUserStats ==
    [soft_trimmed |-> 0, weekly_summaries |-> 0, monthly_summaries |-> 0,
     yearly_summaries |-> 0, archived |-> 0, compressed |-> 0]

ZeroStats ==
    [processed_users |-> 0, soft_trimmed_files |-> 0, weekly_summaries_created |-> 0,
     monthly_summaries_created |-> 0, yearly_summaries_created |-> 0,
     files_archived |-> 0, files_compressed |-> 0, errors |-> 0]

\* the body of the try block of run_daily_cleanup after _cleanup_user returned
Accumulate(st, us) ==
    [processed_users |-> st.processed_users + 1,
     soft_trimmed_files |-> st.soft_trimmed_files + us.soft_trimmed,
     weekly_summaries_created |-> st.weekly_summaries_created + us.weekly_summaries,
     monthly_summaries_created |-> st.monthly_summaries_created + us.monthly_summaries,
     yearly_summaries_created |-> st.yearly_summaries_created + us.yearly_summaries,
     files_archived |-> st.files_archived + us.archived,
     files_compressed |-> st.files_compressed + us.compressed,
     errors |-> st.errors]

\* an except block that logs the exception without counting it
CountError_uncounted(st) == st

\* the except block of run_daily_cleanup
CountError(st) == [st EXCEPT !.errors = @ + 1]

\* the user lists run_daily_cleanup is called with
RECURSIVE Perms(_)
Perms(S) ==
    IF S = {} THEN {<< >>}
    ELSE UNION {{<<x>> \o q : q \in Perms(S \ {x})} : x \in S}
Batches == UNION {Perms(S) : S \in SUBSET Users \ {{}}}

\* run_daily_cleanup(user_ids): up to the for loop.  The daily job is started
\* at most once on a date.
StartBatch(ids) ==
    /\ pc = "idle"
    /\ ~cleaned
    /\ cleaned' = TRUE
    /\ pc' = "loop"
    /\ batch' = ids
    /\ queue' = ids
    /\ stats' = ZeroStats
    /\ UNCHANGED <<cur, user_stats, passLog>>
    /\ UNCHANGED storeVars
    /\ UNCHANGED unitVars

\* the for loop takes the next user and calls _cleanup_user, which returns
\* at once for a user without the V2 structure
EnterUser ==
    /\ pc = "loop"
    /\ queue # << >>
    /\ queue' = Tail(queue)
    /\ IF is_v2_structure(Head(queue))
       THEN /\ pc' = "trim"
            /\ cur' = Head(queue)
            /\ stats' = stats
       ELSE /\ pc' = "loop"
            /\ cur' = cur
            /\ stats' = Accumulate(stats, ZeroUserStats)
    /\ UNCHANGED <<cleaned, batch, user_stats, passLog>>
    /\ UNCHANGED storeVars
    /\ UNCHANGED unitVars

\* run_daily_cleanup returns stats; its locals are gone afterwards
ReturnStats ==
    /\ pc = "loop"
    /\ queue = << >>
    /\ pc' = "idle"
    /\ batch' = << >>
    /\ stats' = ZeroStats
    /\ user_stats' = ZeroUserStats
    /\ UNCHANGED <<cleaned, queue, cur, passLog>>
    /\ UNCHANGED storeVars
    /\ UNCHANGED unitVars

\* _cleanup_user returns user_stats to the loop
FinishUser ==
    /\ pc' = "loop"
    /\ cur' = 0
    /\ stats' = Accumulate(stats, user_stats')
    /\ passLog' = << >>

\* CleanupService._run_soft_trim: the Daily Files it hands to soft_trim
SoftTrimCandidates(u) ==
    {d \in DOMAIN daily[u] :
        /\ ~(d > today - SOFT_TRIM_AFTER_DAYS \/ d > today - PROTECTED_RECENT_DAYS)
        /\ ~(daily[u][d].bytes < TrimmedThresholdBytes)}

_run_soft_trim ==
    /\ pc = "trim"
    /\ \E out \in [SoftTrimCandidates(cur) -> TrimOutcomes] :
          /\ daily' = [daily EXCEPT ![cur] =
                 [d \in DOMAIN @ |-> IF d \in DOMAIN out
                                     THEN soft_trim_daily_file(@[d], out[d]) ELSE @[d]]]
          /\ user_stats' = [ZeroUserStats EXCEPT
                 !.soft_trimmed = Cardinality({d \in DOMAIN out : out[d].ok})]
    /\ pc' = "weekly"
    /\ passLog' = Append(passLog, "trim")
    /\ UNCHANGED <<today, created, stray, weekly, monthly, yearly, archive, appended>>
    /\ UNCHANGED <<cleaned, batch, queue, cur, stats>>
    /\ UNCHANGED unitVars

Min(S) == CHOOSE x \in S : \A y \in S : x <= y

\* week_key = (file_date.year, file_date.isocalendar()[1])
week_key(d) == <<Year(d), IsoWeek(d)>>

\* the dict `weeks` of _run_weekly_summaries: the files of one key
WeekFiles(u, k) == {d \in DOMAIN daily[u] : week_key(d) = k}
Weeks(u) == {week_key(d) : d \in DOMAIN daily[u]}

\* the groups for which _run_weekly_summaries calls create_weekly_summary
WeeklyCandidates(u) ==
    {k \in Weeks(u) :
        LET oldest_date == Min(WeekFiles(u, k))
        IN  /\ ~(oldest_date > today - WEEKLY_SUMMARY_AFTER_DAYS
                 \/ oldest_date > today - PROTECTED_RECENT_DAYS)
            /\ ~(Cardinality(WeekFiles(u, k)) < 5)
            /\ k \notin DOMAIN weekly[u]}

\* CleanupService._run_weekly_summaries; `ok` are the groups whose
\* completion call succeeds
_run_weekly_summaries ==
    /\ pc = "weekly"
    /\ \E ok \in SUBSET WeeklyCandidates(cur) :
          LET moved == UNION {WeekFiles(cur, k) : k \in ok}
          IN  /\ weekly' = [weekly EXCEPT ![cur] =
                     PutAll(@, [k \in ok |->
                         create_weekly_summary(Reverse(SortDesc(WeekFiles(cur, k))))])]
              /\ archive' = [archive EXCEPT ![cur] = archive_daily(@, daily[cur], moved)]
              /\ daily' = [daily EXCEPT ![cur] = Remove(@, moved)]
              /\ user_stats' = [user_stats EXCEPT
                     !.weekly_summaries = Cardinality(ok),
                     !.archived = @ + Cardinality(moved)]
    /\ pc' = "monthly"
    /\ passLog' = Append(passLog, "weekly")
    /\ UNCHANGED <<today, created, stray, monthly, yearly, appended>>
    /\ UNCHANGED <<cleaned, batch, queue, cur, stats>>
    /\ UNCHANGED unitVars

\* month = ((week_num - 1) // 4) + 1, capped at 12
month_key(k) ==
    LET month == ((k[2] - 1) \div 4) + 1
    IN  <<k[1], IF month > 12 THEN 12 ELSE month>>

MonthFiles(u, m) == {k \in DOMAIN weekly[u] : month_key(k) = m}
Months(u) == {month_key(k) : k \in DOMAIN weekly[u]}

\* the candidates of a monthly pass that takes a bucket of any size
MonthlyCandidates_any_size(u) ==
    {m \in Months(u) :
        /\ ~(FirstOfMonth(m[1], m[2]) > today - MONTHLY_SUMMARY_AFTER_DAYS)
        /\ m \notin DOMAIN monthly[u]}

\* the buckets for which _run_monthly_summaries calls create_monthly_summary
MonthlyCandidates(u) ==
    {m \in Months(u) :
        /\ ~(Cardinality(MonthFiles(u, m)) < 4)
        /\ ~(FirstOfMonth(m[1], m[2]) > today - MONTHLY_SUMMARY_AFTER_DAYS)
        /\ m \notin DOMAIN monthly[u]}

\* a monthly pass after which _cleanup_user goes on with the yearly pass
_run_monthly_summaries_then_yearly ==
    /\ pc = "monthly"
    /\ \E ok \in SUBSET MonthlyCandidates(cur) :
          LET moved == UNION {MonthFiles(cur, m) : m \in ok}
          IN  /\ monthly' = [monthly EXCEPT ![cur] =
                     PutAll(@, [m \in ok |-> create_monthly_summary(MonthFiles(cur, m))])]
              /\ archive' = [archive EXCEPT ![cur] = archive_weekly(@, weekly[cur], moved)]
              /\ weekly' = [weekly EXCEPT ![cur] = Remove(@, moved)]
              /\ user_stats' = [user_stats EXCEPT
                     !.monthly_summaries = Cardinality(ok),
                     !.archived = @ + Cardinality(moved)]
    /\ pc' = "yearly"
    /\ passLog' = Append(passLog, "monthly")
    /\ UNCHANGED <<today, created, daily, stray, yearly, appended>>
    /\ UNCHANGED <<cleaned, batch, queue, cur, stats>>
    /\ UNCHANGED unitVars

\* CleanupService._run_monthly_summaries
_run_monthly_summaries ==
    /\ pc = "monthly"
    /\ \E ok \in SUBSET MonthlyCandidates(cur) :
          LET moved == UNION {MonthFiles(cur, m) : m \in ok}
          IN  /\ monthly' = [monthly EXCEPT ![cur] =
                     PutAll(@, [m \in ok |-> create_monthly_summary(MonthFiles(cur, m))])]
              /\ archive' = [archive EXCEPT ![cur] = archive_weekly(@, weekly[cur], moved)]
              /\ weekly' = [weekly EXCEPT ![cur] = Remove(@, moved)]
              /\ user_stats' = [user_stats EXCEPT
                     !.monthly_summaries = Cardinality(ok),
                     !.archived = @ + Cardinality(moved)]
    /\ pc' = "compress"
    /\ passLog' = Append(passLog, "monthly")
    /\ UNCHANGED <<today, created, daily, stray, yearly, appended>>
    /\ UNCHANGED <<cleaned, batch, queue, cur, stats>>
    /\ UNCHANGED unitVars

\* FileStructureManager.find_old_archives: the plain files of one archive
\* folder that were last modified more than `days` days ago
find_old_archives(dir, days) == {n \in DOMAIN dir : dir[n].mtime < today - days}

\* FileStructureManager.compress_file on the files `names` of a folder:
\* <name>.gz is written and the plain file is unlinked
compress_files(plain, gz, names) ==
    PutAll(gz, [n \in names |-> [plain[n] EXCEPT !.bytes = GzBytes(@)]])

\* CleanupService._run_archive_compression
_run_archive_compression ==
    /\ pc = "compress"
    /\ LET a == archive[cur]
           oldDaily == find_old_archives(a.daily, ARCHIVE_COMPRESSION_AFTER_DAYS)
           oldWeekly == find_old_archives(a.weekly, ARCHIVE_COMPRESSION_AFTER_DAYS)
       IN  /\ archive' = [archive EXCEPT ![cur] =
                  [daily |-> Remove(a.daily, oldDaily),
                   dailyGz |-> compress_files(a.daily, a.dailyGz, oldDaily),
                   weekly |-> Remove(a.weekly, oldWeekly),
                   weeklyGz |-> compress_files(a.weekly, a.weeklyGz, oldWeekly)]]
           /\ user_stats' = [user_stats EXCEPT
                  !.compressed = Cardinality(oldDaily) + Cardinality(oldWeekly)]
    /\ pc' = "yearly"
    /\ passLog' = Append(passLog, "compress")
    /\ UNCHANGED <<today, created, daily, stray, weekly, monthly, yearly, appended>>
    /\ UNCHANGED <<cleaned, batch, queue, cur, stats>>
    /\ UNCHANGED unitVars

YearFiles(u, y) == {m \in DOMAIN monthly[u] : m[1] = y}

\* the candidates of a yearly pass that takes a year with any number of months
YearlyCandidates_any_count(u) ==
    {y \in {m[1] : m \in DOMAIN monthly[u]} :
        /\ ~(y >= Year(today))
        /\ y \notin DOMAIN yearly[u]}

YearlyCandidates(u) ==
    {y \in {m[1] : m \in DOMAIN monthly[u]} :
        /\ ~(y >= Year(today))
        /\ ~(Cardinality(YearFiles(u, y)) < 10)
        /\ y \notin DOMAIN yearly[u]}

\* what output_path.write_text does in create_yearly_summary, which calls it
\* outside any try block: it writes the file, or raises OSError
WriteOutcomes == {"written", "raised"}

\* CleanupService._run_yearly_summaries.  A write that raises leaves the
\* pass and _cleanup_user; run_daily_cleanup counts an error.
_run_yearly_summaries(write) ==
    /\ pc = "yearly"
    /\ IF write = "raised"
       THEN /\ YearlyCandidates(cur) # {}
            /\ pc' = "loop"
            /\ cur' = 0
            /\ passLog' = << >>
            /\ stats' = CountError(stats)
            /\ UNCHANGED <<user_stats, yearly>>
       ELSE /\ LET ok == YearlyCandidates(cur)
               IN  /\ yearly' = [yearly EXCEPT ![cur] =
                          PutAll(@, [y \in ok |-> create_yearly_summary(YearFiles(cur, y))])]
                   /\ user_stats' = [user_stats EXCEPT !.yearly_summaries = Cardinality(ok)]
            /\ pc' = "size"
            /\ passLog' = Append(passLog, "yearly")
            /\ UNCHANGED <<cur, stats>>
    /\ UNCHANGED <<today, created, daily, stray, weekly, monthly, archive, appended>>
    /\ UNCHANGED <<cleaned, batch, queue>>
    /\ UNCHANGED unitVars

\* step 6 of _cleanup_user: if self.check_size_triggers(user_id): emergency_cleanup
SizeCheck ==
    /\ pc = "size"
    /\ IF check_size_triggers(cur)
       THEN /\ pc' = "emergency"
            /\ passLog' = Append(passLog, "size")
            /\ UNCHANGED <<cur, stats, user_stats>>
       ELSE /\ user_stats' = user_stats
            /\ FinishUser
    /\ UNCHANGED <<cleaned, batch, queue>>
    /\ UNCHANGED storeVars
    /\ UNCHANGED unitVars

\* CleanupService.emergency_cleanup(u): "none" (fewer than 3 files),
\* "raise" (strptime on a name that is no date) or "call" (the summary is
\* requested)
oldest_files(u) == Last(list_daily_files(u), 5)

emergency_case(u) ==
    IF Len(list_daily_files(u)) < 3 THEN "none"
    ELSE IF oldest_files(u)[1] = Stray THEN "raise"
    ELSE "call"

emergency_cleanup ==
    /\ pc = "emergency"
    /\ \/ /\ emergency_case(cur) = "none"
          /\ user_stats' = user_stats
          /\ FinishUser
          /\ UNCHANGED storeVars
       \/ /\ emergency_case(cur) = "raise"
          /\ pc' = "loop"
          /\ cur' = 0
          /\ passLog' = << >>
          /\ stats' = CountError(stats)
          /\ UNCHANGED user_stats
          /\ UNCHANGED storeVars
       \/ /\ emergency_case(cur) = "call"
          /\ \E success \in BOOLEAN :
                LET files == oldest_files(cur)
                    key == week_key(files[1])
                IN  IF success
                    THEN /\ weekly' = [weekly EXCEPT ![cur] =
                                Put(@, key, create_weekly_summary(files))]
                         /\ archive' = [archive EXCEPT ![cur] =
                                archive_daily(@, daily[cur], Range(files))]
                         /\ daily' = [daily EXCEPT ![cur] = Remove(@, Range(files))]
                    ELSE UNCHANGED <<weekly, archive, daily>>
          /\ user_stats' = user_stats
          /\ FinishUser
          /\ UNCHANGED <<today, created, stray, monthly, yearly, appended>>
    /\ UNCHANGED <<cleaned, batch, queue>>
    /\ UNCHANGED unitVars

\* the passes in which the summarizer calls send_message for user u
CallsCompletion(u) ==
    \/ pc = "trim" /\ SoftTrimCandidates(u) # {}
    \/ pc = "weekly" /\ WeeklyCandidates(u) # {}
    \/ pc = "monthly" /\ MonthlyCandidates(u) # {}
    \/ pc = "emergency" /\ emergency_case(u) = "call"

\* self.llm_client.send_message(prompt, max_tokens=..., temperature=...) is
\* called without a timeout: when the service never answers, the call never
\* returns and the pass stays where it is
CompletionHangs ==
    /\ CallsCompletion(cur)
    /\ pc' = "hung"
    /\ UNCHANGED <<cleaned, batch, queue, cur, user_stats, stats, passLog>>
    /\ UNCHANGED storeVars
    /\ UNCHANGED unitVars

-----------------------------------------------------------------------------
(***************************************************************************)
(* Context loader                                                          *)
(***************************************************************************)
MAX_MEMORY_TOKENS_GLM4 == 64000
TOKEN_ESTIMATION_RATIO == 4
MinRemainingTokens == 1000    \* below it no historical context is looked for
TrivialQueryLen == 10         \* a query of at most so many characters selects nothing

\* FileStructureManager.list_daily_files(user_id, start_date, end_date) with
\* end_date = now and start_date = now - lookback days.  A file name stands
\* for midnight of its date, so the date `lookback` days back is inside the
\* range only when now is midnight itself.  notes.md fails strptime and is
\* left out.
list_daily_files_between(u, lookback, midnight) ==
    IF ~created[u] THEN << >>
    ELSE SortDesc({d \in DOMAIN daily[u] :
                      /\ d <= today
                      /\ IF midnight THEN d >= today - lookback ELSE d > today - lookback})

Prefix(q, n) == IF Len(q) <= n THEN q ELSE SubSeq(q, 1, n)

RECURSIVE SumSeqBytes(_, _)
SumSeqBytes(dir, q) ==
    IF q = << >> THEN 0 ELSE dir[Head(q)].bytes + SumSeqBytes(dir, Tail(q))

NoContext ==
    [state |-> "none", memory_index |-> FALSE, preferences |-> FALSE,
     recent_days |-> << >>, additional_context |-> << >>, total_tokens |-> 0,
     historical_files |-> << >>]

\* ContextLoader._load_standard_context: memory.md, preferences.md and the
\* three newest Daily Files of the last three days
_load_standard_context(u, midnight) ==
    LET recent == Prefix(list_daily_files_between(u, 3, midnight), 3)
        total_chars == (IF indexChars >= 0 THEN indexChars ELSE 0)
                       + (IF prefsChars >= 0 THEN prefsChars ELSE 0)
                       + SumSeqBytes(daily[u], recent)
    IN  [state |-> "returned",
         memory_index |-> indexChars >= 0,
         preferences |-> prefsChars >= 0,
         recent_days |-> recent,
         additional_context |-> << >>,
         total_tokens |-> total_chars \div TOKEN_ESTIMATION_RATIO,
         historical_files |-> << >>]

\* a relative path the completion service can name: a file of daily/ or
\* weekly/, memory.md, a path at which there is no file, or a path that
\* leaves the user directory, "../<other>/daily/<date>.md"; user_dir /
\* rel_path follows each of them
MissingPath == <<"daily", 0 - 1000>>
IndexPath == <<"memory.md", 0>>
OtherUser(u) == CHOOSE v \in Users : v # u
PathExists(u, path) ==
    \/ path[1] = "daily" /\ path[2] \in DOMAIN daily[u]
    \/ path[1] = "weekly" /\ path[2] \in DOMAIN weekly[u]
    \/ path = IndexPath /\ indexChars >= 0
    \/ path[1] = "../daily" /\ path[2] \in DOMAIN daily[OtherUser(u)]
PathChars(u, path) ==
    CASE path[1] = "daily" -> daily[u][path[2]].bytes
      [] path[1] = "weekly" -> weekly[u][path[2]].bytes
      [] path[1] = "../daily" -> daily[OtherUser(u)][path[2]].bytes
      [] OTHER -> indexChars
Paths(u) ==
    {<<"daily", d>> : d \in DOMAIN daily[u]}
    \cup {<<"weekly", k>> : k \in DOMAIN weekly[u]}
    \cup {<<"../daily", d>> : d \in DOMAIN daily[OtherUser(u)]}
    \cup {IndexPath, MissingPath}

\* the sequences of at most n elements of S
RECURSIVE SeqsUpTo(_, _)
SeqsUpTo(S, n) ==
    IF n = 0 THEN {<< >>}
    ELSE LET shorter == SeqsUpTo(S, n - 1)
         IN  shorter \cup {Append(q, x) : q \in shorter, x \in S}

MaxSelected == 2
Selections(u) == SeqsUpTo(Paths(u), MaxSelected)

\* What send_message answers to the file-selection prompt: it raises, it
\* answers with text that is no JSON or no JSON array, or with a JSON array.
SelectReplies(u) ==
    {[kind |-> k, files |-> << >>] : k \in {"raise", "prose", "object"}}
    \cup {[kind |-> "list", files |-> q] : q \in Selections(u)}

\* ContextLoader._select_relevant_files: "raise", or the list of paths and
\* the number of send_message calls made
_select_relevant_files(u, reply) ==
    IF stray[u] THEN [raised |-> TRUE, files |-> << >>, calls |-> 0]   \* strptime on notes.md
    ELSE IF DOMAIN daily[u] = {} /\ DOMAIN weekly[u] = {} /\ DOMAIN monthly[u] = {}
    THEN [raised |-> FALSE, files |-> << >>, calls |-> 0]
    ELSE [raised |-> FALSE,
          files |-> IF reply.kind = "list" THEN reply.files ELSE << >>,
          calls |-> 1]

\* a loader that passes over a file that does not fit and goes on with the
\* files after it
RECURSIVE _load_historical_files_skipping(_, _, _, _)
_load_historical_files_skipping(u, file_list, loaded_tokens, max_tokens) ==
    IF file_list = << >> THEN << >>
    ELSE LET rel_path == Head(file_list)
             rest == Tail(file_list)
         IN  IF ~PathExists(u, rel_path)
             THEN _load_historical_files_skipping(u, rest, loaded_tokens, max_tokens)
             ELSE LET estimated_tokens == PathChars(u, rel_path) \div TOKEN_ESTIMATION_RATIO
                  IN  IF loaded_tokens + estimated_tokens > max_tokens
                      THEN _load_historical_files_skipping(u, rest, loaded_tokens, max_tokens)
                      ELSE <<rel_path>> \o
                           _load_historical_files_skipping(u, rest,
                               loaded_tokens + estimated_tokens, max_tokens)

\* ContextLoader._load_historical_files: the paths added to additional_context
RECURSIVE _load_historical_files(_, _, _, _)
_load_historical_files(u, file_list, loaded_tokens, max_tokens) ==
    IF file_list = << >> THEN << >>
    ELSE LET rel_path == Head(file_list)
         IN  IF ~PathExists(u, rel_path)
             THEN _load_historical_files(u, Tail(file_list), loaded_tokens, max_tokens)
             ELSE LET estimated_tokens == PathChars(u, rel_path) \div TOKEN_ESTIMATION_RATIO
                  IN  IF loaded_tokens + estimated_tokens > max_tokens
                      THEN << >>
                      ELSE <<rel_path>> \o
                           _load_historical_files(u, Tail(file_list),
                                                  loaded_tokens + estimated_tokens, max_tokens)

RECURSIVE PathTokens(_, _)
PathTokens(u, q) ==
    IF q = << >> THEN 0
    ELSE (PathChars(u, Head(q)) \div TOKEN_ESTIMATION_RATIO) + PathTokens(u, Tail(q))

\* load_context without the test of the remaining budget
load_context_without_floor(u, reply, midnight) ==
    /\ loadResult.state = "none"
    /\ LET standard == _load_standard_context(u, midnight)
           remaining_tokens == MAX_MEMORY_TOKENS_GLM4 - standard.total_tokens
           selected == _select_relevant_files(u, reply)
           added == _load_historical_files(u, selected.files, 0, remaining_tokens)
       IN  IF queryLen > TrivialQueryLen
           THEN /\ selectCalls' = selectCalls + selected.calls
                /\ loadResult' =
                      IF selected.raised THEN [NoContext EXCEPT !.state = "raised"]
                      ELSE [standard EXCEPT
                               !.additional_context = added,
                               !.total_tokens = @ + PathTokens(u, added),
                               !.historical_files = selected.files]
           ELSE /\ loadResult' = standard
                /\ selectCalls' = selectCalls
    /\ UNCHANGED <<indexChars, prefsChars, queryLen>>
    /\ UNCHANGED <<scoreVars, layoutVars, summVars, logVars, fileVars, resetVars, memVars>>
    /\ UNCHANGED storeVars
    /\ UNCHANGED runVars

\* ContextLoader.load_context(user_id, user_query)
load_context(u, reply, midnight) ==
    /\ loadResult.state = "none"
    /\ LET standard == _load_standard_context(u, midnight)
           remaining_tokens == MAX_MEMORY_TOKENS_GLM4 - standard.total_tokens
           selected == _select_relevant_files(u, reply)
           added == _load_historical_files(u, selected.files, 0, remaining_tokens)
       IN  IF remaining_tokens < MinRemainingTokens
           THEN /\ loadResult' = standard
                /\ selectCalls' = selectCalls
           ELSE IF queryLen > TrivialQueryLen
           THEN /\ selectCalls' = selectCalls + selected.calls
                /\ loadResult' =
                      IF selected.raised THEN [NoContext EXCEPT !.state = "raised"]
                      ELSE [standard EXCEPT
                               !.additional_context = added,
                               !.total_tokens = @ + PathTokens(u, added),
                               !.historical_files = selected.files]
           ELSE /\ loadResult' = standard
                /\ selectCalls' = selectCalls
    /\ UNCHANGED <<indexChars, prefsChars, queryLen>>
    /\ UNCHANGED <<scoreVars, layoutVars, summVars, logVars, fileVars, resetVars, memVars>>
    /\ UNCHANGED storeVars
    /\ UNCHANGED runVars

-----------------------------------------------------------------------------
(***************************************************************************)
(* Layout of a user directory                                              *)
(***************************************************************************)
\* The paths below users/<id>/; "." is the user directory itself.  tree maps
\* the paths that exist to "dir" or, for a regular file, to "text".
UserDir == "."
folders ==
    <<"daily", "weekly", "monthly", "archive/daily", "archive/weekly",
      "archive/monthly", "important">>
DirPaths == {UserDir, "archive"} \cup {folders[i] : i \in 1..Len(folders)}
LayoutFiles ==
    {"memory.md", "daily/20250117.md", "important/preferences.md",
     "archive/daily/20250101.md"}
Parent(p) ==
    CASE p \in {"archive/daily", "archive/weekly", "archive/monthly"} -> "archive"
      [] p = "daily/20250117.md" -> "daily"
      [] p = "important/preferences.md" -> "important"
      [] p = "archive/daily/20250101.md" -> "archive/daily"
      [] OTHER -> UserDir

\* Path.mkdir(parents=True, exist_ok=True): the tree afterwards, and whether
\* the call raised (the path, or one of its parents, is a regular file)
RECURSIVE Mkdir(_, _)
Mkdir(t, p) ==
    IF p \in DOMAIN t
    THEN [tree |-> t, raised |-> t[p] # "dir"]
    ELSE LET r == IF p = UserDir THEN [tree |-> t, raised |-> FALSE]
                  ELSE Mkdir(t, Parent(p))
         IN  IF r.raised THEN r
             ELSE [tree |-> Put(r.tree, p, "dir"), raised |-> FALSE]

\* the mkdir calls of ensure_v2_structure, in order, up to the first that raises
RECURSIVE MkdirAll(_, _)
MkdirAll(t, q) ==
    IF q = << >> THEN [tree |-> t, raised |-> FALSE]
    ELSE LET r == Mkdir(t, Head(q))
         IN  IF r.raised THEN r ELSE MkdirAll(r.tree, Tail(q))

MaxEnsureCalls == 2

\* a layout initialization that removes the user directory and builds it anew
ensure_v2_structure_from_scratch ==
    /\ ensureCalls < MaxEnsureCalls
    /\ tree' = MkdirAll(EmptyDir, <<UserDir>> \o folders).tree
    /\ ensureCalls' = ensureCalls + 1
    /\ UNCHANGED <<scoreVars, loadVars, summVars, logVars, fileVars, resetVars, memVars>>
    /\ UNCHANGED storeVars
    /\ UNCHANGED runVars

\* FileStructureManager.ensure_v2_structure(user_id)
ensure_v2_structure ==
    /\ ensureCalls < MaxEnsureCalls
    /\ tree' = MkdirAll(tree, <<UserDir>> \o folders).tree
    /\ ensureCalls' = ensureCalls + 1
    /\ UNCHANGED <<scoreVars, loadVars, summVars, logVars, fileVars, resetVars, memVars>>
    /\ UNCHANGED storeVars
    /\ UNCHANGED runVars

-----------------------------------------------------------------------------
(***************************************************************************)
(* The summarizer called directly                                          *)
(***************************************************************************)
MaxSummCalls == 2
MaxInputs == 2

\* What the completion service can answer to a soft-trim prompt: the
\* outcomes the scheduler meets, and a text that is empty after strip()
TrimReplies == TrimOutcomes \cup {[ok |-> TRUE, bytes |-> 0, keep |-> FALSE]}

NoCall == [op |-> "none", files |-> << >>, reply_ok |-> FALSE, outcome |-> "none"]

\* a file name YYYYMMDD.md at which daily/ holds no file
MissingDate == 0 - 1000

\* Summarizer.soft_trim_daily_file(daily/<d>.md) called on the store
SoftTrimCall(u, d, out) ==
    /\ summCalls < MaxSummCalls
    /\ IF d \notin DOMAIN daily[u]
       THEN /\ daily' = daily
            /\ summResult' = [op |-> "soft_trim", files |-> <<d>>, reply_ok |-> out.ok,
                              outcome |-> "false"]
       ELSE /\ daily' = [daily EXCEPT ![u][d] = soft_trim_daily_file(@, out)]
            /\ summResult' = [op |-> "soft_trim", files |-> <<d>>, reply_ok |-> out.ok,
                              outcome |-> IF out.ok THEN "true" ELSE "false"]
    /\ summCalls' = summCalls + 1
    /\ UNCHANGED <<today, created, stray, weekly, monthly, yearly, archive, appended>>
    /\ UNCHANGED <<scoreVars, loadVars, layoutVars, logVars, fileVars, resetVars, memVars>>
    /\ UNCHANGED runVars

\* the input files create_weekly_summary can read and date
Readable(u, daily_files) ==
    {i \in 1..Len(daily_files) : daily_files[i] \in DOMAIN daily[u]}

\* "none": no completion call is made; else what the call returns
WeeklyOutcome(u, daily_files, reply_ok) ==
    IF daily_files = << >> THEN "false"
    ELSE IF Readable(u, daily_files) = {} THEN "false"
    \* strptime on the stems of daily_files[0] and daily_files[-1]
    ELSE IF daily_files[1] = Stray \/ daily_files[Len(daily_files)] = Stray THEN "raise"
    ELSE IF reply_ok THEN "true" ELSE "false"

\* a weekly summary that puts a placeholder at the target before it asks the
\* completion service
WeeklySummaryCall_placeholder_first(u, daily_files, k, reply_ok) ==
    /\ summCalls < MaxSummCalls
    /\ LET outcome == WeeklyOutcome(u, daily_files, reply_ok)
       IN  /\ summResult' = [op |-> "weekly", files |-> daily_files, reply_ok |-> reply_ok,
                             outcome |-> outcome]
           /\ weekly' = IF daily_files # << >> /\ Readable(u, daily_files) # {} /\ outcome # "raise"
                        THEN [weekly EXCEPT ![u] = Put(@, k, create_weekly_summary(daily_files))]
                        ELSE weekly
    /\ summCalls' = summCalls + 1
    /\ UNCHANGED <<today, created, daily, stray, monthly, yearly, archive, appended>>
    /\ UNCHANGED <<scoreVars, loadVars, layoutVars, logVars, fileVars, resetVars, memVars>>
    /\ UNCHANGED runVars

\* Summarizer.create_weekly_summary(daily_files, weekly/<k>.md, week, year)
\* called on the store
WeeklySummaryCall(u, daily_files, k, reply_ok) ==
    /\ summCalls < MaxSummCalls
    /\ LET outcome == WeeklyOutcome(u, daily_files, reply_ok)
       IN  /\ summResult' = [op |-> "weekly", files |-> daily_files, reply_ok |-> reply_ok,
                             outcome |-> outcome]
           /\ weekly' = IF outcome = "true"
                        THEN [weekly EXCEPT ![u] = Put(@, k, create_weekly_summary(daily_files))]
                        ELSE weekly
    /\ summCalls' = summCalls + 1
    /\ UNCHANGED <<today, created, daily, stray, monthly, yearly, archive, appended>>
    /\ UNCHANGED <<scoreVars, loadVars, layoutVars, logVars, fileVars, resetVars, memVars>>
    /\ UNCHANGED runVars

-----------------------------------------------------------------------------
(***************************************************************************)
(* Reading the conversation log                                            *)
(***************************************************************************)
\* the turns of a Daily File in the order of the file: the order they were
\* appended in
RECURSIVE SortAsc(_)
SortAsc(S) ==
    IF S = {} THEN << >>
    ELSE LET m == CHOOSE x \in S : \A y \in S : x <= y
         IN  <<m>> \o SortAsc(S \ {m})

_parse_daily_file(file) == SortAsc(file.turns)

\* the loop of get_context over the files, newest first: extend, then stop
\* once max_messages are collected
RECURSIVE Collect(_, _, _, _)
Collect(u, daily_files, messages, max_messages) ==
    IF daily_files = << >> THEN messages
    ELSE LET extended == messages \o _parse_daily_file(daily[u][Head(daily_files)])
         IN  IF Len(extended) >= max_messages THEN extended
             ELSE Collect(u, Tail(daily_files), extended, max_messages)

\* messages[-max_messages:]; -0 is 0, so the slice is the whole list then
LastSlice(q, n) == IF n = 0 THEN q ELSE Last(q, n)

\* MemoryManagerV2.get_context(user_id, max_messages)
get_context(u, max_messages, midnight) ==
    /\ pc = "idle"
    /\ logResult' =
          [asked |-> max_messages,
           messages |->
              IF ~created[u] THEN << >>
              ELSE LastSlice(Reverse(Collect(u, list_daily_files_between(u, 7, midnight),
                                             << >>, max_messages)),
                             max_messages)]
    /\ UNCHANGED <<scoreVars, loadVars, layoutVars, summVars, fileVars, resetVars, memVars>>
    /\ UNCHANGED storeVars
    /\ UNCHANGED runVars

-----------------------------------------------------------------------------
(***************************************************************************)
(* The store primitives called directly                                    *)
(***************************************************************************)
\* None, as the return value of a primitive that returns a path
NoPath == << >>

NoFsCall ==
    [op |-> "none", date |-> 0, name |-> NoPath, fault |-> "none", written |-> 0,
     returned |-> NoPath, files |-> << >>, original |-> << >>]

\* what shutil.move does at line 213: it renames the file, or raises
MoveOutcomes == {"moved", "raised"}

\* an archive_file that copies the file into the archive and leaves the source
archive_file_copying(dir, arch, d, move) ==
    IF d \notin DOMAIN dir
    THEN [source |-> dir, archive |-> arch, returned |-> NoPath]
    ELSE IF move = "raised"
    THEN [source |-> dir, archive |-> arch, returned |-> NoPath]
    ELSE [source |-> dir, archive |-> Put(arch, d, dir[d]), returned |-> <<d>>]

\* FileStructureManager.archive_file(daily/<d>.md, user_id, "daily") applied to
\* daily/ (dir) and archive/daily/ (arch) of a user.  returned is the name in
\* the archive, None as NoPath.
archive_file(dir, arch, d, move) ==
    IF d \notin DOMAIN dir
    THEN [source |-> dir, archive |-> arch, returned |-> NoPath]
    ELSE IF move = "raised"
    THEN [source |-> dir, archive |-> arch, returned |-> NoPath]
    ELSE [source |-> Remove(dir, {d}), archive |-> Put(arch, d, dir[d]), returned |-> <<d>>]

MaxFsCalls == 2

ArchiveCall(u, d, move) ==
    /\ fsCalls < MaxFsCalls
    /\ LET r == archive_file(daily[u], archive[u].daily, d, move)
       IN  /\ daily' = [daily EXCEPT ![u] = r.source]
           /\ archive' = [archive EXCEPT ![u].daily = r.archive]
           /\ fsResult' = [NoFsCall EXCEPT !.op = "archive_file", !.date = d,
                                           !.fault = move, !.returned = r.returned]
    /\ fsCalls' = fsCalls + 1
    /\ UNCHANGED disk
    /\ UNCHANGED <<today, created, stray, weekly, monthly, yearly, appended>>
    /\ UNCHANGED <<scoreVars, loadVars, layoutVars, summVars, logVars, resetVars, memVars>>
    /\ UNCHANGED runVars

\* list_daily_files called without a date range, or with the range of the
\* last 7 days
ListCall(u, ranged) ==
    /\ fsCalls < MaxFsCalls
    /\ fsResult' = [NoFsCall EXCEPT
                       !.op = "list_daily_files",
                       !.fault = IF ranged THEN "range" ELSE "none",
                       !.files = IF ranged THEN list_daily_files_between(u, 7, FALSE)
                                 ELSE list_daily_files(u)]
    /\ fsCalls' = fsCalls + 1
    /\ UNCHANGED disk
    /\ UNCHANGED storeVars
    /\ UNCHANGED <<scoreVars, loadVars, layoutVars, summVars, logVars, resetVars, memVars>>
    /\ UNCHANGED runVars

\* ---- gzip ----
\* A file is the sequence of its bytes.  The gzip stream of a file is the
\* magic byte, the runs of equal bytes as (length, byte) pairs, and a trailer
\* (0, size) that closes the stream.
GzMagic == 31
Bytes == {1, 2}
MaxLen == 3

RunLen(b) ==
    CHOOSE n \in 1..Len(b) :
        /\ \A i \in 1..n : b[i] = b[1]
        /\ n = Len(b) \/ b[n + 1] # b[1]

RECURSIVE Runs(_)
Runs(b) ==
    IF b = << >> THEN << >>
    ELSE <<RunLen(b), b[1]>> \o Runs(SubSeq(b, RunLen(b) + 1, Len(b)))

\* what gzip.open(path, "wb") has written when the copy completes
gzip_write(b) == <<GzMagic>> \o Runs(b) \o <<0, Len(b)>>

\* the bytes of the complete runs at the head of p
RECURSIVE Expand(_)
Expand(p) ==
    IF Len(p) < 2 \/ p[1] = 0 THEN << >>
    ELSE [i \in 1..p[1] |-> p[2]] \o Expand(SubSeq(p, 3, Len(p)))

\* the length of p up to and including its complete runs
RECURSIVE RunsLen(_)
RunsLen(p) ==
    IF Len(p) < 2 \/ p[1] = 0 THEN 0 ELSE 2 + RunsLen(SubSeq(p, 3, Len(p)))

\* what gzip.open(path, "rb") yields: the bytes that can be read, and whether
\* reading raises (no magic byte, or the stream ends before its trailer)
gzip_read(s) ==
    IF s = << >> \/ s[1] # GzMagic THEN [data |-> << >>, raised |-> TRUE]
    ELSE LET p == Tail(s)
             data == Expand(p)
             rest == SubSeq(p, RunsLen(p) + 1, Len(p))
         IN  [data |-> data, raised |-> rest # <<0, Len(data)>>]

\* A file name is the sequence of its stem and its suffixes:
\* <<"20250101", ".md">>; str(path) + ".gz" appends a suffix and
\* str(path)[:-3] cuts the last one off.
Gz == ".gz"
with_gz(name) == Append(name, Gz)
endswith_gz(name) == Len(name) > 0 /\ name[Len(name)] = Gz
without_gz(name) == SubSeq(name, 1, Len(name) - 1)

\* where compress_file can fail: "open" (gzip.open raises, nothing is
\* created), "write" (the copy raises after `written` bytes of the stream),
\* "unlink" (the stream is complete, removing the plaintext raises)
CompressFaults == {"none", "open", "write", "unlink"}

\* a compress_file that leaves the plaintext next to the artifact
compress_file_keeping_plaintext(d, name, fault, written) ==
    IF name \notin DOMAIN d THEN [disk |-> d, returned |-> NoPath]
    ELSE IF fault = "open" THEN [disk |-> d, returned |-> NoPath]
    ELSE LET stream == gzip_write(d[name])
         IN  IF fault = "write"
             THEN [disk |-> Put(d, with_gz(name), Prefix(stream, written)),
                   returned |-> NoPath]
             ELSE IF fault = "unlink"
             THEN [disk |-> Put(d, with_gz(name), stream), returned |-> NoPath]
             ELSE [disk |-> Put(d, with_gz(name), stream), returned |-> with_gz(name)]

\* FileStructureManager.compress_file(file_path) applied to a directory d
compress_file(d, name, fault, written) ==
    IF name \notin DOMAIN d THEN [disk |-> d, returned |-> NoPath]
    ELSE IF fault = "open" THEN [disk |-> d, returned |-> NoPath]
    ELSE LET stream == gzip_write(d[name])
         IN  IF fault = "write"
             THEN [disk |-> Put(d, with_gz(name), Prefix(stream, written)),
                   returned |-> NoPath]
             ELSE IF fault = "unlink"
             THEN [disk |-> Put(d, with_gz(name), stream), returned |-> NoPath]
             ELSE [disk |-> Remove(Put(d, with_gz(name), stream), {name}),
                   returned |-> with_gz(name)]

\* FileStructureManager.decompress_file(file_path) applied to a directory d:
\* the output file is opened before the first read, and holds what was read
\* when reading raises
decompress_file(d, name) ==
    IF name \notin DOMAIN d \/ ~endswith_gz(name) THEN [disk |-> d, returned |-> NoPath]
    ELSE LET r == gzip_read(d[name])
         IN  [disk |-> Put(d, without_gz(name), r.data),
              returned |-> IF r.raised THEN NoPath ELSE without_gz(name)]

FileNames == {<<"20250101", ".md">>, <<"20250102", ".md">>}
CallNames == FileNames \cup {with_gz(n) : n \in FileNames}

\* written: the bytes of the stream that reach the file before a "write" fault
CompressCall(name, fault, written) ==
    /\ fsCalls < MaxFsCalls
    /\ IF fault = "write" /\ name \in DOMAIN disk
       THEN written < Len(gzip_write(disk[name]))
       ELSE written = 0
    /\ LET r == compress_file(disk, name, fault, written)
       IN  /\ disk' = r.disk
           /\ fsResult' = [NoFsCall EXCEPT
                              !.op = "compress_file", !.name = name, !.fault = fault,
                              !.written = written,
                              !.returned = r.returned,
                              !.original = IF name \in DOMAIN disk THEN disk[name] ELSE << >>]
    /\ fsCalls' = fsCalls + 1
    /\ UNCHANGED storeVars
    /\ UNCHANGED <<scoreVars, loadVars, layoutVars, summVars, logVars, resetVars, memVars>>
    /\ UNCHANGED runVars

DecompressCall(name) ==
    /\ fsCalls < MaxFsCalls
    /\ LET r == decompress_file(disk, name)
       IN  /\ disk' = r.disk
           /\ fsResult' = [NoFsCall EXCEPT
                              !.op = "decompress_file", !.name = name,
                              !.returned = r.returned]
    /\ fsCalls' = fsCalls + 1
    /\ UNCHANGED storeVars
    /\ UNCHANGED <<scoreVars, loadVars, layoutVars, summVars, logVars, resetVars, memVars>>
    /\ UNCHANGED runVars

-----------------------------------------------------------------------------
(***************************************************************************)
(* Resetting a user                                                        *)
(***************************************************************************)
\* p lies in the subtree of the user directory that starts at c
RECURSIVE Under(_, _)
Under(p, c) == p = c \/ (p # UserDir /\ Under(Parent(p), c))

Restrict(t, S) == [p \in S |-> t[p]]

\* what a copy or a removal of the tree t that raises has got through: the
\* user directory alone, or everything but one of its subtrees
Partials(t) ==
    IF UserDir \notin DOMAIN t THEN {}
    ELSE {Restrict(t, {UserDir})} \cup
         {Restrict(t, {p \in DOMAIN t : ~Under(p, c)}) :
             c \in {q \in DOMAIN t : q # UserDir /\ Parent(q) = UserDir}}

\* shutil.copytree and shutil.rmtree complete, or raise partway
TreeOutcomes == {"done", "raised"}

\* MemoryManagerV2.create_user on a user directory that does not exist: the
\* V2 folders, memory.md, the Daily File of today and preferences.md
create_user ==
    LET t == MkdirAll(EmptyDir, <<UserDir>> \o folders).tree
    IN  PutAll(t, [p \in {"memory.md", "daily/20250117.md", "important/preferences.md"} |->
                      "template"])

NoReset == [called |-> FALSE, before |-> EmptyDir, at |-> 0, returned |-> "none"]

MaxSeconds == 2

\* a reset_user that removes the user directory before it copies it
reset_user_delete_first(copy, rm, copied, left) ==
    IF UserDir \notin DOMAIN tree
    THEN /\ UNCHANGED <<tree, backups>>
         /\ resetResult' = [called |-> TRUE, before |-> tree, at |-> now, returned |-> "false"]
    ELSE IF rm = "raised"
    THEN /\ tree' = left
         /\ UNCHANGED backups
         /\ resetResult' = [called |-> TRUE, before |-> tree, at |-> now, returned |-> "raised"]
    ELSE IF now \in DOMAIN backups \/ tree[UserDir] # "dir"
    THEN /\ tree' = EmptyDir
         /\ UNCHANGED backups
         /\ resetResult' = [called |-> TRUE, before |-> tree, at |-> now, returned |-> "raised"]
    ELSE /\ backups' = Put(backups, now, EmptyDir)
         /\ tree' = create_user
         /\ resetResult' = [called |-> TRUE, before |-> tree, at |-> now, returned |-> "true"]

\* MemoryManagerV2.reset_user(user_id).  copy and rm say whether copytree and
\* rmtree raise; copied and left are what they got through when they do.
reset_user(copy, rm, copied, left) ==
    IF UserDir \notin DOMAIN tree
    THEN /\ UNCHANGED <<tree, backups>>
         /\ resetResult' = [called |-> TRUE, before |-> tree, at |-> now, returned |-> "false"]
    \* copytree: os.makedirs(backup_dir) raises when a backup of this second
    \* exists, os.scandir raises when the user directory is a regular file
    ELSE IF now \in DOMAIN backups \/ tree[UserDir] # "dir"
    THEN /\ UNCHANGED <<tree, backups>>
         /\ resetResult' = [called |-> TRUE, before |-> tree, at |-> now, returned |-> "raised"]
    ELSE IF copy = "raised"
    THEN /\ backups' = Put(backups, now, copied)
         /\ UNCHANGED tree
         /\ resetResult' = [called |-> TRUE, before |-> tree, at |-> now, returned |-> "raised"]
    ELSE IF rm = "raised"
    THEN /\ backups' = Put(backups, now, tree)
         /\ tree' = left
         /\ resetResult' = [called |-> TRUE, before |-> tree, at |-> now, returned |-> "raised"]
    ELSE /\ backups' = Put(backups, now, tree)
         /\ tree' = create_user
         /\ resetResult' = [called |-> TRUE, before |-> tree, at |-> now, returned |-> "true"]

ResetCall(copy, rm, copied, left) ==
    /\ copied \in (IF copy = "raised" /\ UserDir \in DOMAIN tree THEN Partials(tree) ELSE {EmptyDir})
    /\ left \in (IF rm = "raised" /\ UserDir \in DOMAIN tree THEN Partials(tree) \cup {tree}
                 ELSE {EmptyDir})
    /\ reset_user(copy, rm, copied, left)
    /\ UNCHANGED <<now, ensureCalls>>
    /\ UNCHANGED <<scoreVars, loadVars, summVars, logVars, fileVars, memVars>>
    /\ UNCHANGED storeVars
    /\ UNCHANGED runVars

\* a second passes
Second ==
    /\ now < MaxSeconds
    /\ now' = now + 1
    /\ UNCHANGED <<tree, ensureCalls, backups, resetResult>>
    /\ UNCHANGED <<scoreVars, loadVars, summVars, logVars, fileVars, memVars>>
    /\ UNCHANGED storeVars
    /\ UNCHANGED runVars

-----------------------------------------------------------------------------
(***************************************************************************)
(* Creating and migrating a user                                           *)
(***************************************************************************)
\* users/<id>/ of one user.  memory is what users/<id>/memory.md is: the V1
\* memory (its turns are v1log), the V2 master index, or missing.  Both
\* managers keep their file at that path.  files is daily/: date |-> the
\* turns of the Daily File in the order they stand in it.
NoUserDir ==
    [exists |-> FALSE, memory |-> "none", v1log |-> << >>, backup |-> FALSE,
     backup_log |-> << >>, v2 |-> FALSE, prefs |-> "none", files |-> EmptyDir]

NoMemCall == [op |-> "none", returned |-> "none", before |-> NoUserDir, calls |-> 0,
              prev |-> "none"]

MaxMemCalls == 3

\* MemoryManagerV2.user_exists
user_exists(d) == d.exists /\ d.memory # "none"

\* FileStructureManager.is_v2_structure: daily/ exists
is_v2(d) == d.v2

\* MemoryManagerV2.create_user: the directory afterwards and the value returned
create_user_on(d) ==
    IF user_exists(d) THEN [dir |-> d, returned |-> FALSE]
    ELSE [dir |-> [d EXCEPT !.exists = TRUE,
                            !.v2 = TRUE,                        \* ensure_v2_structure
                            !.memory = "index",
                            !.v1log = << >>,
                            !.files = Put(@, today, << >>),     \* daily_path.write_text
                            !.prefs = "created"],
          returned |-> TRUE]

\* MemoryManagerV2._create_daily_file: an existing file is kept
_create_daily_file(files, date) ==
    IF date \in DOMAIN files THEN files ELSE Put(files, date, << >>)

\* the dates of the turns of a V1 memory
DatesOf(log) == {log[i].date : i \in 1..Len(log)}

\* the loop of migrate_from_v1 over messages_by_date: the Daily File of each
\* date is created if it is missing and the turns of the date are appended
MigratedFiles(files, log) ==
    [date \in DOMAIN files \cup DatesOf(log) |->
        LET OfDate(t) == t.date = date
        IN  IF date \in DatesOf(log)
            THEN _create_daily_file(files, date)[date] \o SelectSeq(log, OfDate)
            ELSE files[date]]

\* MemoryManagerV2.migrate_from_v1: the directory afterwards and the value
\* returned
migrate_from_v1(d) ==
    IF is_v2(d) THEN [dir |-> d, returned |-> TRUE]
    ELSE LET found == [d EXCEPT !.exists = TRUE]       \* _get_memory_path makes the directory
         IN  IF found.memory = "none" THEN [dir |-> found, returned |-> FALSE]
             ELSE LET split == [found EXCEPT
                                   !.backup = TRUE,                 \* shutil.copy
                                   !.backup_log = found.v1log,
                                   !.v2 = TRUE,                     \* ensure_v2_structure
                                   !.files = MigratedFiles(@, found.v1log)]
                      \* _create_memory_index_from_migration writes memory.md
                      indexed == [split EXCEPT !.memory = "index", !.v1log = << >>,
                                               !.prefs = "migrated"]
                      \* old_memory_path.unlink(): the path is memory.md again
                      unlinked == [indexed EXCEPT !.memory = "none"]
                  IN  [dir |-> unlinked, returned |-> TRUE]

\* the turn written by the n-th call of the memory manager
NewTurn(n) == [id |-> 100 + n, date |-> today]

\* MemoryManagerV2.append_message: the directory afterwards, whether the
\* user was initialized and whether the call raised (a V1 user has no daily/
\* to write the Daily File of today into)
append_to(d, n) ==
    LET init == create_user_on(d)
        ready == init.dir
    IN  IF ~ready.v2
        THEN [dir |-> ready, initialized |-> init.returned, raised |-> TRUE]
        ELSE [dir |-> [ready EXCEPT !.files =
                          Put(@, today, Append(_create_daily_file(@, today)[today], NewTurn(n)))],
              initialized |-> init.returned,
              raised |-> FALSE]

Called(op, returned) ==
    [op |-> op, returned |-> returned, before |-> udir, calls |-> mmResult.calls + 1,
     prev |-> IF mmResult.op = "migrate" /\ mmResult.returned = "true"
                 /\ mmResult.before.memory = "v1" /\ ~mmResult.before.v2
              THEN "migrated" ELSE "other"]

CreateCall ==
    /\ mmResult.calls < MaxMemCalls
    /\ LET r == create_user_on(udir)
       IN  /\ udir' = r.dir
           /\ mmResult' = Called("create", IF r.returned THEN "true" ELSE "false")
    /\ UNCHANGED <<scoreVars, loadVars, layoutVars, summVars, logVars, fileVars, resetVars>>
    /\ UNCHANGED storeVars
    /\ UNCHANGED runVars

MigrateCall ==
    /\ mmResult.calls < MaxMemCalls
    /\ LET r == migrate_from_v1(udir)
       IN  /\ udir' = r.dir
           /\ mmResult' = Called("migrate", IF r.returned THEN "true" ELSE "false")
    /\ UNCHANGED <<scoreVars, loadVars, layoutVars, summVars, logVars, fileVars, resetVars>>
    /\ UNCHANGED storeVars
    /\ UNCHANGED runVars

AppendCall ==
    /\ mmResult.calls < MaxMemCalls
    /\ LET r == append_to(udir, mmResult.calls + 1)
       IN  /\ udir' = r.dir
           /\ mmResult' = Called(IF r.initialized THEN "append_init" ELSE "append",
                                 IF r.raised THEN "raised" ELSE "true")
    /\ UNCHANGED <<scoreVars, loadVars, layoutVars, summVars, logVars, fileVars, resetVars>>
    /\ UNCHANGED storeVars
    /\ UNCHANGED runVars

-----------------------------------------------------------------------------
(***************************************************************************)
(* Initial states                                                          *)
(***************************************************************************)
ScoreIdle ==
    /\ snippet = {}
    /\ context = [frequency_count |-> Absent, days_since_first_mention |-> Absent]
    /\ scoreResult = NoResult
    /\ scorePath = "none"
    /\ llmCalls = 0
    /\ scoreRaised = FALSE

NoRead == [asked |-> 0 - 1, messages |-> << >>]

LoadIdle ==
    /\ indexChars = IndexBytes
    /\ prefsChars = IndexBytes
    /\ queryLen = 0
    /\ loadResult = NoContext
    /\ selectCalls = 0

LayoutIdle ==
    /\ tree = EmptyDir
    /\ ensureCalls = 0

SummIdle ==
    /\ summResult = NoCall
    /\ summCalls = 0

LogIdle == logResult = NoRead

FileIdle ==
    /\ disk = EmptyDir
    /\ fsResult = NoFsCall
    /\ fsCalls = 0

ResetIdle ==
    /\ backups = EmptyDir
    /\ now = 0
    /\ resetResult = NoReset

MemIdle ==
    /\ udir = NoUserDir
    /\ mmResult = NoMemCall

EmptyArchive == [daily |-> EmptyDir, dailyGz |-> EmptyDir, weekly |-> EmptyDir, weeklyGz |-> EmptyDir]

\* The memories earlier use of the bot has left on the start date.  A
\* history names the dates of the Daily Files (one turn each), the size of
\* the oldest of them (the others are small), whether daily/ holds a stray file, and whether the summaries
\* of 2024 exist (Weekly Summaries 2024-W49..W52, Monthly Summaries
\* 2024-03..2024-11).
LastWeek == 7..13
TurnOfYearWeek == 0..6
RecentDays == 16..18
SmallBytes == 200
LongBytes == 3000

Histories ==
    {[files |-> LastWeek, bytes |-> SmallBytes, stray |-> FALSE, summaries |-> TRUE],
     [files |-> TurnOfYearWeek, bytes |-> SmallBytes, stray |-> FALSE, summaries |-> FALSE],
     [files |-> 10..13, bytes |-> LongBytes, stray |-> FALSE, summaries |-> FALSE],
     [files |-> RecentDays, bytes |-> GiantBytes, stray |-> FALSE, summaries |-> FALSE],
     [files |-> 17..18, bytes |-> GiantBytes, stray |-> TRUE, summaries |-> FALSE],
     [files |-> 13..18, bytes |-> GiantBytes, stray |-> FALSE, summaries |-> FALSE]}

SeedFile(d, b) == [turns |-> {0 - (d + 1)}, bytes |-> b, mtime |-> d]

SeedWeekly ==
    [k \in {<<2024, 49>>, <<2024, 50>>, <<2024, 51>>, <<2024, 52>>} |->
        LET first == 0 - 7 * (53 - k[2])
        IN  [created |-> first + 7, first |-> first, last |-> first + 6, sources |-> 7,
             mtime |-> first + 7, bytes |-> SummaryBytes]]

SeedMonthly ==
    [m \in {<<2024, i>> : i \in 3..11} |->
        [created |-> FirstOfMonth(2024, m[2]) + 30, first |-> 0, last |-> 0, sources |-> 4,
         mtime |-> FirstOfMonth(2024, m[2]) + 30, bytes |-> SummaryBytes]]

\* user 1 has any history; another user has none yet or one with a stray file
HistoriesOf(u) ==
    IF u = 1 THEN Histories
    ELSE {h \in Histories : h.stray}

Init ==
    /\ ScoreIdle
    /\ LoadIdle
    /\ LayoutIdle
    /\ SummIdle
    /\ LogIdle
    /\ FileIdle
    /\ ResetIdle
    /\ MemIdle
    /\ today = StartDay
    /\ created \in [Users -> BOOLEAN]
    /\ created[1]
    /\ \E h \in [Users -> Histories] :
          /\ \A u \in Users : h[u] \in HistoriesOf(u)
          /\ daily = [u \in Users |->
                 IF created[u]
                 THEN [d \in h[u].files |->
                          SeedFile(d, IF \A e \in h[u].files : d <= e
                                      THEN h[u].bytes ELSE SmallBytes)]
                 ELSE EmptyDir]
          /\ stray = [u \in Users |-> created[u] /\ h[u].stray]
          /\ weekly = [u \in Users |-> IF created[u] /\ h[u].summaries THEN SeedWeekly ELSE EmptyDir]
          /\ monthly = [u \in Users |-> IF created[u] /\ h[u].summaries THEN SeedMonthly ELSE EmptyDir]
    /\ yearly = [u \in Users |-> EmptyDir]
    /\ archive = [u \in Users |-> EmptyArchive]
    /\ appended = [u \in Users |-> 0]
    /\ pc = "idle"
    /\ cleaned = FALSE
    /\ batch = << >>
    /\ queue = << >>
    /\ cur = 0
    /\ user_stats = ZeroUserStats
    /\ stats = ZeroStats
    /\ passLog = << >>

Next ==
    \/ \E u \in Users, n \in MessageLengths : append_message(u, n)
    \/ Tick
    \/ Dormant
    \/ \E ids \in Batches : StartBatch(ids)
    \/ EnterUser
    \/ _run_soft_trim
    \/ _run_weekly_summaries
    \/ _run_monthly_summaries
    \/ _run_archive_compression
    \/ \E write \in WriteOutcomes : _run_yearly_summaries(write)
    \/ SizeCheck
    \/ emergency_cleanup
    \/ ReturnStats

Spec == Init /\ [][Next]_vars

\* ---- run_daily_cleanup with a completion service that may never answer ----
\* The store stays as it is while the job runs.  The job is the only thread:
\* whenever it can take a step it does, which is weak fairness of its steps.
NextLive ==
    \/ \E ids \in Batches : StartBatch(ids)
    \/ EnterUser
    \/ _run_soft_trim
    \/ _run_weekly_summaries
    \/ _run_monthly_summaries
    \/ _run_archive_compression
    \/ \E write \in WriteOutcomes : _run_yearly_summaries(write)
    \/ SizeCheck
    \/ emergency_cleanup
    \/ ReturnStats
    \/ CompletionHangs

SpecLive == Init /\ [][NextLive]_vars /\ WF_vars(NextLive)

\* ---- the daily job for one user interleaved with messages of another ----
\* Messages arrive only while the job is inside _cleanup_user.
NextPar ==
    \/ \E u \in Users, n \in MessageLengths : append_message_during_cleanup(u, n)
    \/ \E ids \in Batches : StartBatch(ids)
    \/ EnterUser
    \/ _run_soft_trim
    \/ _run_weekly_summaries
    \/ _run_monthly_summaries
    \/ _run_archive_compression
    \/ \E write \in WriteOutcomes : _run_yearly_summaries(write)
    \/ SizeCheck
    \/ emergency_cleanup
    \/ ReturnStats

SpecPar == Init /\ [][NextPar]_vars

\* ---- the daily job repeated ----
\* run_daily_cleanup() takes the users from the directories it finds
RetryBatches == Perms({u \in Users : created[u]})

\* run_daily_cleanup is started once more when the clock of the model has
\* come to its end
Rerun ==
    /\ pc = "idle"
    /\ cleaned
    /\ today >= MaxDay
    /\ cleaned' = FALSE
    /\ UNCHANGED <<pc, batch, queue, cur, user_stats, stats, passLog>>
    /\ UNCHANGED storeVars
    /\ UNCHANGED unitVars

NextRetry ==
    \/ Tick
    \/ Dormant
    \/ Rerun
    \/ \E ids \in RetryBatches : StartBatch(ids)
    \/ EnterUser
    \/ _run_soft_trim
    \/ _run_weekly_summaries
    \/ _run_monthly_summaries
    \/ _run_archive_compression
    \/ \E write \in WriteOutcomes : _run_yearly_summaries(write)
    \/ SizeCheck
    \/ emergency_cleanup
    \/ ReturnStats

\* The scheduler starts the job again and again and the job, the only
\* thread, goes on whenever it can: weak fairness of the steps.  What the
\* completion service does is left open.
SpecRetry == Init /\ [][NextRetry]_vars /\ WF_vars(NextRetry)

StoreIdle ==
    /\ today = 0
    /\ created = [u \in Users |-> FALSE]
    /\ daily = [u \in Users |-> EmptyDir]
    /\ stray = [u \in Users |-> FALSE]
    /\ weekly = [u \in Users |-> EmptyDir]
    /\ monthly = [u \in Users |-> EmptyDir]
    /\ yearly = [u \in Users |-> EmptyDir]
    /\ archive = [u \in Users |-> EmptyArchive]
    /\ appended = [u \in Users |-> 0]
    /\ pc = "none"
    /\ cleaned = FALSE
    /\ batch = << >>
    /\ queue = << >>
    /\ cur = 0
    /\ user_stats = ZeroUserStats
    /\ stats = ZeroStats
    /\ passLog = << >>

InitScore ==
    /\ snippet \in Snippets
    /\ context \in Contexts
    /\ scoreResult = NoResult
    /\ scorePath = "none"
    /\ llmCalls = 0
    /\ scoreRaised = FALSE
    /\ LoadIdle
    /\ LayoutIdle
    /\ SummIdle
    /\ LogIdle
    /\ FileIdle
    /\ ResetIdle
    /\ MemIdle
    /\ StoreIdle

NextScore == \E reply \in Replies : score_conversation(reply)

SpecScore == InitScore /\ [][NextScore]_vars

\* ---- load_context applied to bounded user directories ----
RunIdle ==
    /\ pc = "idle"
    /\ cleaned = FALSE
    /\ batch = << >>
    /\ queue = << >>
    /\ cur = 0
    /\ user_stats = ZeroUserStats
    /\ stats = ZeroStats
    /\ passLog = << >>

\* sizes of memory.md: none, a fresh index, and indexes that leave exactly
\* the floor, one token less than the floor, and less than nothing
IndexChoices == {0 - 1, IndexBytes, 252000, 252004, 260000}
PrefsChoices == {0 - 1, IndexBytes}
TokenFileBytes == 4000     \* a file estimated at 1000 tokens

\* the Daily Files of the user: date |-> size
DailyLayouts ==
    {EmptyDir,
     [d \in {StartDay} |-> SmallBytes],
     [d \in {StartDay - 9} |-> TokenFileBytes],
     [d \in {StartDay - 9, StartDay - 8} |-> TokenFileBytes],
     [d \in {StartDay - 9, StartDay} |-> SmallBytes],
     [d \in (StartDay - 3)..StartDay |-> SmallBytes],
     [d \in (StartDay - 3)..StartDay |-> 100000]}

OneWeekly ==
    [k \in {<<2025, 2>>} |->
        [created |-> StartDay - 4, first |-> 7, last |-> 13, sources |-> 7,
         mtime |-> StartDay - 4, bytes |-> SmallBytes]]

QueryLengths == {0, 10, 11}

InitLoad ==
    /\ ScoreIdle
    /\ LayoutIdle
    /\ SummIdle
    /\ LogIdle
    /\ FileIdle
    /\ ResetIdle
    /\ MemIdle
    /\ RunIdle
    /\ indexChars \in IndexChoices
    /\ prefsChars \in PrefsChoices
    /\ queryLen \in QueryLengths
    /\ loadResult = NoContext
    /\ selectCalls = 0
    /\ today = StartDay
    /\ created = [u \in Users |-> TRUE]
    /\ \E layout \in DailyLayouts :
          daily = [u \in Users |->
                     IF u = 1 THEN [d \in DOMAIN layout |-> SeedFile(d, layout[d])]
                     ELSE [d \in {StartDay - 9} |-> SeedFile(d, SmallBytes)]]
    /\ stray \in {[u \in Users |-> FALSE], [u \in Users |-> u = 1]}
    /\ weekly \in {[u \in Users |-> EmptyDir],
                   [u \in Users |-> IF u = 1 THEN OneWeekly ELSE EmptyDir]}
    /\ monthly = [u \in Users |-> EmptyDir]
    /\ yearly = [u \in Users |-> EmptyDir]
    /\ archive = [u \in Users |-> EmptyArchive]
    /\ appended = [u \in Users |-> 0]

NextLoad ==
    \E reply \in SelectReplies(1), midnight \in BOOLEAN :
        load_context(1, reply, midnight)

SpecLoad == InitLoad /\ [][NextLoad]_vars

\* ---- ensure_v2_structure applied to bounded user directories ----
ParentClosed(S) == \A p \in S : p = UserDir \/ Parent(p) \in S

\* a user directory in any stage of construction, with some files in it and
\* possibly a regular file where a folder is to be
InitialTrees ==
    {[p \in D \cup F \cup C |-> IF p \in D THEN "dir" ELSE "text"] :
        D \in {S \in SUBSET DirPaths : ParentClosed(S)},
        F \in SUBSET LayoutFiles,
        C \in {{}} \cup {{p} : p \in DirPaths}}

InitLayout ==
    /\ ScoreIdle
    /\ LoadIdle
    /\ SummIdle
    /\ LogIdle
    /\ FileIdle
    /\ ResetIdle
    /\ MemIdle
    /\ StoreIdle
    /\ ensureCalls = 0
    /\ tree \in {t \in InitialTrees :
                   \A p \in DOMAIN t : p = UserDir \/ (Parent(p) \in DOMAIN t /\ t[Parent(p)] = "dir")}

NextLayout == ensure_v2_structure

SpecLayout == InitLayout /\ [][NextLayout]_vars

\* ---- the summarizer called on bounded stores ----
InitSumm ==
    /\ ScoreIdle
    /\ LoadIdle
    /\ LayoutIdle
    /\ LogIdle
    /\ FileIdle
    /\ ResetIdle
    /\ MemIdle
    /\ RunIdle
    /\ summResult = NoCall
    /\ summCalls = 0
    /\ today = StartDay
    /\ created = [u \in Users |-> u = 1]
    /\ \E files \in {{}, {12, 13}} :
          daily = [u \in Users |->
                     IF u = 1 THEN [d \in files |-> SeedFile(d, IF d = 12 THEN LongBytes ELSE SmallBytes)]
                     ELSE EmptyDir]
    /\ stray \in {[u \in Users |-> FALSE], [u \in Users |-> u = 1]}
    /\ weekly \in {[u \in Users |-> EmptyDir],
                   [u \in Users |-> IF u = 1 THEN OneWeekly ELSE EmptyDir]}
    /\ monthly = [u \in Users |-> EmptyDir]
    /\ yearly = [u \in Users |-> EmptyDir]
    /\ archive = [u \in Users |-> EmptyArchive]
    /\ appended = [u \in Users |-> 0]

InputNames == {12, 13, MissingDate, Stray}
InputLists == SeqsUpTo(InputNames, MaxInputs)

NextSumm ==
    \/ \E d \in {12, MissingDate}, out \in TrimReplies : SoftTrimCall(1, d, out)
    \/ \E daily_files \in InputLists, reply_ok \in BOOLEAN :
          WeeklySummaryCall(1, daily_files, <<2025, 2>>, reply_ok)

SpecSumm == InitSumm /\ [][NextSumm]_vars

\* ---- append_message, the passing of days and get_context ----
InitLog ==
    /\ ScoreIdle
    /\ LoadIdle
    /\ LayoutIdle
    /\ SummIdle
    /\ RunIdle
    /\ FileIdle
    /\ ResetIdle
    /\ MemIdle
    /\ logResult = NoRead
    /\ today = StartDay
    /\ created = [u \in Users |-> FALSE]
    /\ daily = [u \in Users |-> EmptyDir]
    /\ stray = [u \in Users |-> FALSE]
    /\ weekly = [u \in Users |-> EmptyDir]
    /\ monthly = [u \in Users |-> EmptyDir]
    /\ yearly = [u \in Users |-> EmptyDir]
    /\ archive = [u \in Users |-> EmptyArchive]
    /\ appended = [u \in Users |-> 0]

MaxMessages == 2

NextLog ==
    \/ \E n \in MessageLengths : append_message(1, n)
    \/ Tick
    \/ Dormant
    \/ \E max_messages \in 0..MaxMessages, midnight \in BOOLEAN :
          get_context(1, max_messages, midnight)

SpecLog == InitLog /\ [][NextLog]_vars

\* ---- the store primitives called directly ----
Contents == UNION {[1..n -> Bytes] : n \in 0..MaxLen}

InitFiles ==
    /\ ScoreIdle
    /\ LoadIdle
    /\ LayoutIdle
    /\ SummIdle
    /\ LogIdle
    /\ ResetIdle
    /\ MemIdle
    /\ RunIdle
    /\ today = StartDay
    /\ created = [u \in Users |-> u = 1]
    /\ daily = [u \in Users |-> IF u = 1 THEN [d \in {12, 13} |-> SeedFile(d, SmallBytes)]
                                 ELSE EmptyDir]
    /\ stray \in [Users -> BOOLEAN]
    /\ \A u \in Users : stray[u] => created[u]
    /\ weekly = [u \in Users |-> EmptyDir]
    /\ monthly = [u \in Users |-> EmptyDir]
    /\ yearly = [u \in Users |-> EmptyDir]
    /\ archive = [u \in Users |-> EmptyArchive]
    /\ appended = [u \in Users |-> 0]
    /\ \E b \in Contents : disk = [n \in FileNames |-> IF n[1] = "20250101" THEN b ELSE <<1>>]
    /\ fsResult = NoFsCall
    /\ fsCalls = 0

NextFiles ==
    \/ \E d \in {12, 13, MissingDate}, move \in MoveOutcomes : ArchiveCall(1, d, move)
    \/ \E ranged \in BOOLEAN : ListCall(1, ranged)
    \/ \E name \in CallNames, fault \in CompressFaults, written \in 0..(2 * MaxLen + 2) :
          CompressCall(name, fault, written)
    \/ \E name \in CallNames : DecompressCall(name)

SpecFiles == InitFiles /\ [][NextFiles]_vars

\* ---- reset_user on bounded user directories ----
\* no user directory, a regular file in its place, a V1 directory, a V2
\* directory with memories, and one that holds a file where a folder belongs
V2Tree ==
    PutAll(MkdirAll(EmptyDir, <<UserDir>> \o folders).tree, [p \in LayoutFiles |-> "text"])

ResetTrees ==
    {EmptyDir,
     [p \in {UserDir} |-> "text"],
     [p \in {UserDir, "memory.md"} |-> IF p = UserDir THEN "dir" ELSE "text"],
     V2Tree,
     Restrict(V2Tree, {UserDir, "memory.md", "daily", "daily/20250117.md"})}

InitReset ==
    /\ ScoreIdle
    /\ LoadIdle
    /\ SummIdle
    /\ LogIdle
    /\ FileIdle
    /\ StoreIdle
    /\ MemIdle
    /\ ensureCalls = 0
    /\ tree \in ResetTrees
    /\ backups = EmptyDir
    /\ now = 0
    /\ resetResult = NoReset

NextReset ==
    \/ \E copy \in TreeOutcomes, rm \in TreeOutcomes :
          \E copied \in (IF copy = "raised" THEN Partials(tree) ELSE {}) \cup {EmptyDir},
             left \in (IF rm = "raised" /\ copy = "done" THEN Partials(tree) \cup {tree} ELSE {})
                      \cup {EmptyDir} :
             ResetCall(copy, rm, copied, left)
    \/ Second

SpecReset == InitReset /\ [][NextReset]_vars

\* ---- create_user, migrate_from_v1 and append_message on one directory ----
\* a V1 memory holds turns of yesterday and of today, in the order written
V1Logs ==
    LET t1 == [id |-> 1, date |-> 0 - 1]
        t2 == [id |-> 2, date |-> 0 - 1]
        t3 == [id |-> 3, date |-> 0]
    IN  {<< >>, <<t1>>, <<t3>>, <<t1, t3>>, <<t1, t2, t3>>}

\* no directory, or the directory of a V1 user
MemDirs ==
    {NoUserDir} \cup
    {[NoUserDir EXCEPT !.exists = TRUE, !.memory = "v1", !.v1log = log] : log \in V1Logs}

InitMem ==
    /\ ScoreIdle
    /\ LoadIdle
    /\ LayoutIdle
    /\ SummIdle
    /\ LogIdle
    /\ FileIdle
    /\ ResetIdle
    /\ StoreIdle
    /\ udir \in MemDirs
    /\ mmResult = NoMemCall

NextMem ==
    \/ CreateCall
    \/ MigrateCall
    \/ AppendCall

SpecMem == InitMem /\ [][NextMem]_vars

-----------------------------------------------------------------------------
(***************************************************************************)
(* Properties of the cleanup scheduler and the hierarchy store (Spec)      *)
(***************************************************************************)
NormalPasses == {"trim", "weekly", "monthly", "compress", "yearly"}

\* the step condition of C1
ProtectedKept ==
    pc \in NormalPasses =>
       \A d \in DOMAIN daily[cur] :
           d > today - 7 =>
               /\ d \in DOMAIN daily'[cur]
               /\ daily'[cur][d] = daily[cur][d]

\* C1: Protected window.  A normal-trigger pass (soft-trim, weekly, monthly,
\* compression, yearly) leaves every Daily File dated within the last 7
\* days (day offsets 0..6 from the run date) in daily/ with unchanged
\* content.
C1_ProtectedWindow == [][ProtectedKept]_vars

\* the names below archive/daily, plain or compressed, and what can be read there
ArchivedNames(a) == DOMAIN a.daily \cup DOMAIN a.dailyGz
ArchivedTurns(a, n) == IF n \in DOMAIN a.daily THEN a.daily[n].turns ELSE a.dailyGz[n].turns
RECURSIVE TurnsOf(_, _)
TurnsOf(dir, names) ==
    IF names = {} THEN {}
    ELSE LET n == CHOOSE x \in names : TRUE
         IN  dir[n].turns \cup TurnsOf(dir, names \ {n})
\* the turns readable from the active and the archive tier of a user
ReadableTurns(d, a) ==
    TurnsOf(d, DOMAIN d) \cup TurnsOf(a.daily, DOMAIN a.daily)
    \cup TurnsOf(a.dailyGz, DOMAIN a.dailyGz)

\* the step condition of C2
ArchiveConserved ==
    /\ \A u \in Users : \A n \in ArchivedNames(archive[u]) :
           /\ n \in ArchivedNames(archive'[u])
           /\ ArchivedTurns(archive'[u], n) = ArchivedTurns(archive[u], n)
    /\ pc \in {"weekly", "emergency"} =>
           ReadableTurns(daily'[cur], archive'[cur]) = ReadableTurns(daily[cur], archive[cur])

\* C2: Conservation under archival.  Every Daily File that is in the archive
\* keeps its complete content there (plain or compressed) in every later
\* step, and a pass that archives (weekly pass, emergency compaction) leaves
\* the set of turns readable from daily/ plus archive/daily unchanged.
C2_ArchiveConserves == [][ArchiveConserved]_vars

\* a summary directory after a step: no path that existed is written again
NotRewritten(old, new) == \A k \in DOMAIN old : k \in DOMAIN new => new[k] = old[k]

\* the step condition of C3
SummariesKept ==
    \A u \in Users :
       /\ NotRewritten(weekly[u], weekly'[u])
       /\ NotRewritten(monthly[u], monthly'[u])
       /\ NotRewritten(yearly[u], yearly'[u])

\* C3: Summaries are never overwritten.  Once a Weekly, Monthly or Yearly
\* Summary exists at an identity, no step writes to that path again.
C3_SummaryNeverOverwritten == [][SummariesKept]_vars

\* the Weekly Summary identities of user u a step writes
WrittenWeekly(u) ==
    {k \in DOMAIN weekly'[u] : k \notin DOMAIN weekly[u] \/ weekly'[u][k] # weekly[u][k]}
\* the identities at which a Weekly Summary of user u has been created
WeeklyIdentities(u) ==
    DOMAIN weekly[u] \cup DOMAIN archive[u].weekly \cup DOMAIN archive[u].weeklyGz

\* the step condition of C4
WeeklyCreatedOnce ==
    \A u \in Users : WrittenWeekly(u) \cap WeeklyIdentities(u) = {}

\* C4: Promotion identity uniqueness.  A Weekly Summary is created only at
\* an identity (user, year, week) at which none has been created before.
C4_WeeklyIdentityUnique == [][WeeklyCreatedOnce]_vars

\* user u has exactly 7 Daily Files, the 7 days of one ISO week
OneIsoWeek(u) ==
    /\ Cardinality(DOMAIN daily[u]) = 7
    /\ \A d, e \in DOMAIN daily[u] : d \div 7 = e \div 7

\* the step condition of C5
WeekPromoted ==
    pc = "weekly" /\ OneIsoWeek(cur) =>
       /\ (\A d \in DOMAIN daily[cur] : d > today - 7) =>
              /\ weekly' = weekly
              /\ daily' = daily
              /\ archive' = archive
       /\ ( /\ \A d \in DOMAIN daily[cur] : d <= today - 7
            /\ user_stats'.weekly_summaries = Cardinality(WeeklyCandidates(cur)) ) =>
              /\ Cardinality(WrittenWeekly(cur)) = 1
              /\ daily'[cur] = EmptyDir
              /\ \A d \in DOMAIN daily[cur] :
                     /\ d \in DOMAIN archive'[cur].daily
                     /\ archive'[cur].daily[d] = daily[cur][d]

\* C5: Weekly promotion scenario.  For a user with exactly 7 Daily Files
\* spanning one ISO week the weekly pass creates and archives nothing while
\* all 7 dates are inside the protected window; once all 7 are outside it
\* and every completion call of the pass succeeds, the pass creates exactly
\* one Weekly Summary and moves all 7 files from daily/ to archive/daily.
C5_WeeklyPromotionScenario == [][WeekPromoted]_vars

\* the (at most) n oldest dates of a set of dates
RECURSIVE Oldest(_, _)
Oldest(S, n) ==
    IF n = 0 \/ S = {} THEN {}
    ELSE LET m == Min(S) IN {m} \cup Oldest(S \ {m}, n - 1)

\* the step condition of C6
EmergencyCompacted ==
    pc = "emergency" =>
       LET files == DOMAIN daily[cur]
           five == Oldest(files, 5)
           unchanged == daily' = daily /\ weekly' = weekly /\ archive' = archive
           returned == stats'.errors = stats.errors
       IN  IF Cardinality(files) < 3
           THEN returned /\ unchanged
           ELSE /\ returned
                /\ \/ unchanged
                   \/ /\ Cardinality(WrittenWeekly(cur)) = 1
                      /\ \A k \in WrittenWeekly(cur) :
                             weekly'[cur][k].sources = Cardinality(five)
                      /\ daily'[cur] = Remove(daily[cur], five)
                      /\ \A d \in five :
                             /\ d \in DOMAIN archive'[cur].daily
                             /\ archive'[cur].daily[d] = daily[cur][d]

\* C6: Emergency compaction.  With fewer than 3 Daily Files
\* emergency_cleanup returns and changes nothing.  With at least 3 it
\* returns, and unless the completion call failed it has written exactly one
\* Weekly Summary made from the 5 oldest Daily Files (all when fewer than 5)
\* and moved exactly those files to archive/daily.
C6_EmergencyCompaction == [][EmergencyCompacted]_vars

\* C7: Within a cleanup run emergency_cleanup is entered for a user only
\* when the user's total size, rounded to hundredths of a MB, is above 100
\* MB or the daily subtree is above MAX_DAILY_FOLDER_SIZE_MB.
C7_EmergencyOnlyOnSize ==
    pc = "emergency" =>
        \/ total_size_mb(total_size_bytes(cur)) > 100 * 100
        \/ DailyFolderBytes(cur) > MAX_DAILY_FOLDER_SIZE_MB * MiB

\* emergency_cleanup is entered although every Daily File is inside the
\* protected window and too young for any age-based pass
C7_Witness ==
    /\ pc = "emergency"
    /\ DOMAIN daily[cur] # {}
    /\ \A d \in DOMAIN daily[cur] : d > today - 7

PassOrder == <<"trim", "weekly", "monthly", "compress", "yearly", "size">>
WrittenToday(dir) == {k \in DOMAIN dir : dir[k].created = today}

\* C8: Pass ordering.  The passes of one _cleanup_user call start in the
\* order soft-trim, weekly, monthly, compression, yearly, size check, each
\* after the previous one has finished, and the summaries a pass has counted
\* as created are in their folder when the following pass starts.
C8_PassOrdering ==
    /\ Len(passLog) <= Len(PassOrder)
    /\ passLog = SubSeq(PassOrder, 1, Len(passLog))
    /\ pc \in Range(PassOrder) => pc = PassOrder[Len(passLog) + 1]
    /\ pc = "emergency" => passLog = PassOrder
    /\ pc = "monthly" =>
           Cardinality(WrittenToday(weekly[cur])) >= user_stats.weekly_summaries
    /\ pc \in {"compress", "yearly", "size", "emergency"} =>
           Cardinality(WrittenToday(monthly[cur])) >= user_stats.monthly_summaries
    /\ pc \in {"size", "emergency"} =>
           Cardinality(WrittenToday(yearly[cur])) >= user_stats.yearly_summaries

\* the yearly pass has used the Monthly Summary written earlier in the same run
C8_Witness ==
    /\ pc = "size"
    /\ passLog = <<"trim", "weekly", "monthly", "compress", "yearly">>
    /\ user_stats.monthly_summaries = 1
    /\ user_stats.yearly_summaries = 1
    /\ yearly[cur][2024].sources = 10

\* C9: Per-user failure isolation.  While run_daily_cleanup is in its loop,
\* every user taken from the batch so far has been counted once, as
\* processed or as an error; hence processed_users + errors is the size of
\* the batch when the run returns, whatever was raised for single users.
C9_FailureIsolation ==
    pc = "loop" =>
        stats.processed_users + stats.errors = Len(batch) - Len(queue)

\* a run about to return in which one user raised and another was processed
C9_Witness ==
    /\ pc = "loop"
    /\ queue = << >>
    /\ batch = <<2, 1>>
    /\ stats.errors = 1
    /\ stats.processed_users = 1

-----------------------------------------------------------------------------
(***************************************************************************)
(* Properties of the importance scorer (SpecScore)                         *)
(***************************************************************************)
Within(x, hi) == 0 <= x /\ x <= hi

\* C10: Score bounds.  For every snippet, context and behaviour of the
\* completion service, score_conversation returns, without raising, a result
\* with score in 0..10, frequency_points in 0..3, recency_points in 0..2,
\* explicit_points in 0..2 and relevance_points in 0..3.
C10_ScoreBounds ==
    scorePath # "none" =>
        /\ ~scoreRaised
        /\ scoreResult # NoResult
        /\ Within(scoreResult.score, 10)
        /\ Within(scoreResult.frequency_points, 3)
        /\ Within(scoreResult.recency_points, 2)
        /\ Within(scoreResult.explicit_points, 2)
        /\ Within(scoreResult.relevance_points, 3)

\* the completion service answered with an out-of-bound value and the
\* fallback produced the result
C10_Witness ==
    /\ scorePath = "fallback"
    /\ llmCalls = 1
    /\ scoreResult.frequency_points = 3
    /\ scoreResult.recency_points = 2
    /\ scoreResult.relevance_points = 3

SubScoreSum(r) ==
    r.frequency_points + r.recency_points + r.explicit_points + r.relevance_points

\* C11: Total is the sum.  Every result returned by score_conversation, on
\* the transient fast path, the completion-service path and the fallback
\* path alike, has a score equal to the sum of its four sub-scores.
C11_TotalIsSum ==
    scorePath # "none" => scoreResult.score = SubScoreSum(scoreResult)

\* the snippet, lowered, contains one of the transient-fact keywords
MatchesTransientPattern(text) ==
    \E w \in text : Substrings(Lower(w)) \cap TEMPORARY_KEYWORDS # {}

\* C12: Transient-fact override.  For every snippet matching the
\* transient-fact pattern set and every supplied frequency/recency context,
\* score_conversation returns score 0 with all four sub-scores 0, and the
\* completion service is not invoked.
C12_TransientOverride ==
    (scorePath # "none" /\ MatchesTransientPattern(snippet)) =>
        /\ scoreResult = ZeroScore
        /\ llmCalls = 0

\* a capitalised transient keyword next to an importance marker, with a
\* context that would earn the highest frequency and recency points
C12_Witness ==
    /\ scorePath = "temporary"
    /\ snippet = {"Wetter", "WICHTIG"}
    /\ context.frequency_count = Num(10)
    /\ context.days_since_first_mention = Num(0)
    /\ scoreResult = ZeroScore
    /\ llmCalls = 0

-----------------------------------------------------------------------------
(***************************************************************************)
(* Properties of the context loader (SpecLoad)                             *)
(***************************************************************************)
\* C13: Budget enforcement.  For every user state and every query, the
\* context returned by load_context has a total_tokens that does not exceed
\* MAX_MEMORY_TOKENS_GLM4, whatever the size of memory.md, of preferences.md
\* and of the recent Daily Files.
C13_BudgetEnforced ==
    loadResult.state = "returned" => loadResult.total_tokens <= MAX_MEMORY_TOKENS_GLM4

\* the estimate of the always-included set in a returned context
AlwaysIncludedTokens ==
    loadResult.total_tokens - PathTokens(1, loadResult.additional_context)

\* C14: No history below the floor.  When the always-included set leaves
\* less than MinRemainingTokens of the budget (or exceeds the budget),
\* load_context returns a context with an empty additional_context and has
\* made no send_message call.
C14_NoHistoryBelowFloor ==
    (/\ loadResult.state = "returned"
     /\ MAX_MEMORY_TOKENS_GLM4 - AlwaysIncludedTokens < MinRemainingTokens)
    => /\ loadResult.additional_context = << >>
       /\ selectCalls = 0

\* memory.md leaves 999 tokens, the query is not trivial and there are
\* historical files to choose from
C14_Witness ==
    /\ loadResult.state = "returned"
    /\ MAX_MEMORY_TOKENS_GLM4 - loadResult.total_tokens = MinRemainingTokens - 1
    /\ queryLen > TrivialQueryLen
    /\ weekly[1] # EmptyDir
    /\ DOMAIN daily[1] # {}
    /\ ~stray[1]
    /\ loadResult.additional_context = << >>
    /\ selectCalls = 0

-----------------------------------------------------------------------------
(***************************************************************************)
(* Properties of the layout (SpecLayout)                                   *)
(***************************************************************************)
EnsureKeeps ==
    ensureCalls' = ensureCalls + 1 =>
        /\ \A p \in DOMAIN tree : p \in DOMAIN tree' /\ tree'[p] = tree[p]
        /\ ensureCalls >= 1 => tree' = tree

\* C15: Idempotent layout.  A second call of ensure_v2_structure for the
\* same user leaves the directory state the first call produced, and no
\* call deletes or modifies a file or folder that exists.
C15_IdempotentLayout == [][EnsureKeeps]_vars

\* two calls on a user who had files but not all the folders
C15_Witness ==
    /\ ensureCalls = 2
    /\ "daily/20250117.md" \in DOMAIN tree
    /\ "memory.md" \in DOMAIN tree
    /\ \A i \in 1..Len(folders) : folders[i] \in DOMAIN tree /\ tree[folders[i]] = "dir"

-----------------------------------------------------------------------------
(***************************************************************************)
(* Properties of the summarizer called directly (SpecSumm)                 *)
(***************************************************************************)
WeeklyCallStep == summCalls' = summCalls + 1 /\ summResult'.op = "weekly"

\* the completion service was asked for the weekly digest
CompletionAsked(call) ==
    /\ call.files # << >>
    /\ Readable(1, call.files) # {}
    /\ call.files[1] # Stray
    /\ call.files[Len(call.files)] # Stray

WeeklyFailureWritesNothing ==
    WeeklyCallStep =>
        /\ summResult'.outcome = "false" => weekly' = weekly
        /\ (\/ summResult'.files = << >>
            \/ Readable(1, summResult'.files) = {}
            \/ CompletionAsked(summResult') /\ ~summResult'.reply_ok)
           => summResult'.outcome = "false"

SoftTrimStep == summCalls' = summCalls + 1 /\ summResult'.op = "soft_trim"

SoftTrimAllOrNothing ==
    SoftTrimStep =>
        /\ summResult'.outcome = "false" => daily' = daily
        /\ ~summResult'.reply_ok => summResult'.outcome = "false"

SoftTrimKeepsTurns ==
    (SoftTrimStep /\ summResult'.outcome = "true") =>
        \A d \in DOMAIN daily[1] :
            /\ d \in DOMAIN daily'[1]
            /\ daily'[1][d].turns = daily[1][d].turns

\* C18: Soft trim keeps the turns.  After a successful soft_trim of a Daily
\* File, whatever text the completion service returned, every turn that
\* could be read in the file before can be read in it afterwards.
C18_SoftTrimKeepsTurns == [][SoftTrimKeepsTurns]_vars

-----------------------------------------------------------------------------
(***************************************************************************)
(* Properties of get_context (SpecLog)                                     *)
(***************************************************************************)
\* turn identities are the numbers of the append_message calls
Ascending(q) == \A i, j \in 1..Len(q) : i < j => q[i] < q[j]

\* C19: Chronological order.  The list get_context returns is ordered
\* oldest first: the i-th returned turn was appended before the (i+1)-th.
C19_Chronological == Ascending(logResult.messages)

\* the turns stored in the Daily Files of the lookback window
WindowTurns(u) ==
    UNION {daily[u][d].turns : d \in {e \in DOMAIN daily[u] : e <= today /\ e > today - 7}}

MostRecent(S, n) == {x \in S : Cardinality({y \in S : y > x}) < n}

ReturnsLast ==
    logResult' # logResult =>
        /\ Len(logResult'.messages) <= logResult'.asked
        /\ Cardinality(WindowTurns(1)) > logResult'.asked =>
               Range(logResult'.messages) = MostRecent(WindowTurns(1), logResult'.asked)

\* C20: The last max_messages turns.  For every max_messages >= 0
\* get_context returns at most max_messages turns, and when more turns than
\* that are stored in the lookback window the returned turns are the most
\* recently appended ones.
C20_ReturnsLast == [][ReturnsLast]_vars

-----------------------------------------------------------------------------
(***************************************************************************)
(* The store primitives                                                    *)
(***************************************************************************)
ArchiveStep == fsCalls' = fsCalls + 1 /\ fsResult'.op = "archive_file"

ArchiveIsMove(u) ==
    LET d == fsResult'.date
    IN  /\ d \in DOMAIN daily[u] /\ fsResult'.returned # NoPath =>
              /\ fsResult'.returned = <<d>>
              /\ d \notin DOMAIN daily'[u]
              /\ d \in DOMAIN archive'[u].daily
              /\ archive'[u].daily[d] = daily[u][d]
        /\ d \notin DOMAIN daily[u] =>
              /\ fsResult'.returned = NoPath
              /\ UNCHANGED storeVars

\* C21: archive_file is a move with a soft failure: called on a file that
\* exists it leaves the file in archive/daily/ under the same name and no
\* longer in daily/; called on a file that does not exist it returns None
\* and changes no file.
C21_ArchiveIsMove == [][ArchiveStep => ArchiveIsMove(1)]_vars

\* archive_file has moved 20250111.md and was then called on a missing file
C21_Witness ==
    /\ fsResult.op = "archive_file"
    /\ fsResult.date = MissingDate
    /\ fsResult.returned = NoPath
    /\ 12 \in DOMAIN archive[1].daily
    /\ 12 \notin DOMAIN daily[1]

CompressStep == fsCalls' = fsCalls + 1 /\ fsResult'.op = "compress_file"

RoundTrip ==
    LET f == fsResult'.name
        back == decompress_file(disk', with_gz(f))
    IN  /\ fsResult'.returned = with_gz(f)
        /\ f \notin DOMAIN disk'
        /\ with_gz(f) \in DOMAIN disk'
        /\ back.returned = f
        /\ back.disk[f] = disk[f]

\* C22: after a successful compress_file(f) the plaintext f is gone, the
\* artifact f + ".gz" exists, and decompress_file on the artifact writes a
\* file f with exactly the bytes f had before.
C22_RoundTrip == [][CompressStep /\ fsResult'.returned # NoPath => RoundTrip]_vars

\* a file of two runs was compressed, and only its artifact is left
C22_Witness ==
    /\ fsResult.op = "compress_file"
    /\ fsResult.returned = with_gz(fsResult.name)
    /\ Len(Runs(fsResult.original)) = 4
    /\ fsResult.name \notin DOMAIN disk
    /\ gzip_read(disk[fsResult.returned]).data = fsResult.original

FailsPartway ==
    LET f == fsResult'.name
    IN  /\ f \in DOMAIN disk' /\ disk'[f] = disk[f]
        /\ with_gz(f) \in DOMAIN disk' =>
              with_gz(f) \in DOMAIN disk /\ disk'[with_gz(f)] = disk[with_gz(f)]

\* C23: when compress_file fails while it writes the compressed stream, the
\* plaintext is still there with its bytes and the final name f + ".gz"
\* holds no artifact this call has written.
C23_NoPartialArtifact ==
    [][CompressStep /\ fsResult'.fault = "write" /\ fsResult'.name \in DOMAIN disk
          => FailsPartway]_vars

Descending(q) == \A i, j \in 1..Len(q) : i < j => q[i] > q[j]

\* C24: list_daily_files, with or without a date range, returns only files
\* whose name is a date, newest first; notes.md is left out.
C24_ListsOnlyDates ==
    fsResult.op = "list_daily_files" =>
        /\ \A i \in 1..Len(fsResult.files) : fsResult.files[i] # Stray
        /\ Descending(fsResult.files)

-----------------------------------------------------------------------------
(***************************************************************************)
(* Resetting a user                                                        *)
(***************************************************************************)
ResetStep ==
    /\ ensureCalls' = ensureCalls
    /\ now' = now
    /\ <<tree, backups, resetResult>>' # <<tree, backups, resetResult>>

BackupFirst ==
    /\ tree' # tree =>
          /\ now \notin DOMAIN backups
          /\ now \in DOMAIN backups'
          /\ backups'[now] = tree
    /\ resetResult'.returned = "true" =>
          /\ tree' = create_user
          /\ now \in DOMAIN backups'
          /\ backups'[now] = tree
    /\ \A t \in DOMAIN backups : t \in DOMAIN backups' /\ backups'[t] = backups[t]

\* C25: reset_user changes the user directory only when the same call has
\* made a complete copy of it under a new backup name; a reset that returns
\* True leaves a backup with the content the directory had before, and a
\* reset whose copy fails leaves the directory as it was.
C25_BackupBeforeDelete == [][ResetStep => BackupFirst]_vars

\* a V2 directory with memories was reset: the fresh directory and its backup
C25_Witness ==
    /\ resetResult.returned = "true"
    /\ resetResult.before = V2Tree
    /\ tree = create_user
    /\ backups[resetResult.at] = V2Tree

-----------------------------------------------------------------------------
(***************************************************************************)
(* Identity of weeks and months                                            *)
(***************************************************************************)
\* the ISO year and ISO week of a date: date.isocalendar()[:2]
iso_key(d) == <<IF d < 0 THEN 2024 ELSE 2025, IsoWeek(d)>>

WeeklyPassStep == pc = "weekly" /\ pc' = "monthly"

GroupsAreIsoWeeks ==
    LET moved == DOMAIN daily[cur] \ DOMAIN daily'[cur]
        written == DOMAIN weekly'[cur] \ DOMAIN weekly[cur]
    IN  /\ \A d \in moved, e \in DOMAIN daily[cur] : iso_key(d) = iso_key(e) => e \in moved
        /\ \A d \in moved : iso_key(d) \in written
        /\ \A k \in written : \E d \in moved : iso_key(d) = k

\* C28: weekly identity is the ISO week.  The Daily Files the weekly pass
\* summarises together are all the files of one ISO (year, week), also when
\* the week spans the turn of the year, and the summary is stored under that
\* ISO (year, week).
C28_GroupsAreIsoWeeks == [][WeeklyPassStep => GroupsAreIsoWeeks]_vars

MonthlyPassStep == pc = "monthly" /\ pc' # "monthly"

\* the month bucket of a Weekly Summary: min(12, ((w - 1) div 4) + 1)
Bucket(k) == <<k[1], Min({12, ((k[2] - 1) \div 4) + 1})>>
Members(u, m) == {k \in DOMAIN weekly[u] : Bucket(k) = m}

MonthlyPromotion ==
    LET written == DOMAIN monthly'[cur] \ DOMAIN monthly[cur]
        moved == DOMAIN weekly[cur] \ DOMAIN weekly'[cur]
    IN  /\ \A m \in written :
              /\ Cardinality(Members(cur, m)) >= 4
              /\ FirstOfMonth(m[1], m[2]) + MONTHLY_SUMMARY_AFTER_DAYS <= today
              /\ monthly'[cur][m].sources = Cardinality(Members(cur, m))
        /\ moved = UNION {Members(cur, m) : m \in written}
        /\ \A k \in moved :
              /\ k \in DOMAIN archive'[cur].weekly
              /\ archive'[cur].weekly[k] = weekly[cur][k]
        /\ \A m \in DOMAIN monthly[cur] : monthly'[cur][m] = monthly[cur][m]

\* C30: the monthly pass puts the Weekly Summary of week w into the bucket
\* min(12, ((w - 1) div 4) + 1) of its year and writes a Monthly Summary for a
\* bucket only if the bucket has at least 4 Weekly Summaries, the first day
\* of the month is at least 30 days past and the bucket has no Monthly
\* Summary yet; every Weekly Summary of a bucket that got its summary is
\* then in archive/weekly and no longer in weekly/.
C30_MonthlyPromotion == [][MonthlyPassStep => MonthlyPromotion]_vars

\* December 2024 was summarised from the weeks 49..52, which are archived
C30_Witness ==
    /\ pc = "compress"
    /\ <<2024, 12>> \in DOMAIN monthly[cur]
    /\ user_stats.monthly_summaries = 1
    /\ \A w \in 49..52 : <<2024, w>> \in DOMAIN archive[cur].weekly
    /\ weekly[cur] = EmptyDir

-----------------------------------------------------------------------------
(***************************************************************************)
(* Passes of one user's run                                                *)
(***************************************************************************)
\* the passes of _cleanup_user that have a pass after them
EarlierPasses == {"trim", "weekly", "monthly", "compress", "yearly"}

GoesOn == pc \in EarlierPasses => pc' \in (EarlierPasses \cup {"size"})

\* C29: within one user's cleanup run a failure in one pass does not keep
\* the later passes from being executed: _cleanup_user leaves no pass for the
\* loop of run_daily_cleanup before the size check, its last step.
C29_PassesIndependent == [][GoesOn]_vars

-----------------------------------------------------------------------------
(***************************************************************************)
(* Termination of the daily job                                            *)
(***************************************************************************)
\* C27: every completion call made during cleanup is bounded, so that a call
\* that never answers costs the current user at most: run_daily_cleanup, once
\* started, goes through the users of its batch and returns.
C27_CleanupTerminates == (pc = "loop") ~> (pc = "idle")

-----------------------------------------------------------------------------
(***************************************************************************)
(* Isolation of users                                                      *)
(***************************************************************************)
\* everything below users/<u>/
UserStore(u) ==
    <<created[u], daily[u], stray[u], weekly[u], monthly[u], yearly[u], archive[u], appended[u]>>

Touched == {u \in Users : UserStore(u)' # UserStore(u)}

Confined ==
    /\ Cardinality(Touched) <= 1
    \* a step of the daily job writes below the directory of its user only
    /\ runVars' # runVars => Touched \subseteq {cur}
    \* a message of user u adds a turn below users/<u>/ and nowhere else
    /\ runVars' = runVars =>
          \A u \in Touched :
              /\ appended'[u] = appended[u] + 1
              /\ weekly'[u] = weekly[u] /\ monthly'[u] = monthly[u]
              /\ yearly'[u] = yearly[u] /\ archive'[u] = archive[u]
              /\ \A d \in DOMAIN daily[u] : d # today => daily'[u][d] = daily[u][d]

\* C26: user isolation.  Whatever the interleaving of the daily job for one
\* user with messages of another, a step changes the files of one user only:
\* the job those of the user it is working on, a message those of its own
\* user, so that each directory goes through the states it goes through when
\* the two users are served one after the other.
C26_UserIsolation == [][Confined]_vars

\* a message of user 2 arrived while the job was working on user 1, and the
\* job has gone on
C26_Witness ==
    /\ cur = 1
    /\ pc = "compress"
    /\ appended[2] > 0
    /\ today \in DOMAIN daily[2]
    /\ archive[1].daily # EmptyDir

-----------------------------------------------------------------------------
(***************************************************************************)
(* Yearly promotion                                                        *)
(***************************************************************************)
YearlyPassStep == pc = "yearly" /\ pc' # "yearly"

YearlyPromotion ==
    LET written == DOMAIN yearly'[cur] \ DOMAIN yearly[cur]
    IN  /\ \A y \in written :
              /\ y < Year(today)
              /\ Cardinality({m \in DOMAIN monthly[cur] : m[1] = y}) >= 10
              /\ yearly'[cur][y].sources = Cardinality({m \in DOMAIN monthly[cur] : m[1] = y})
        /\ \A y \in DOMAIN yearly[cur] : y \in DOMAIN yearly'[cur] /\ yearly'[cur][y] = yearly[cur][y]
        /\ monthly' = monthly
        /\ archive' = archive

\* C31: the yearly pass writes a Yearly Summary for year Y only if Y is before
\* the current year, monthly/ holds at least 10 Monthly Summaries of Y and
\* there is no Yearly Summary of Y; it leaves every Monthly Summary and the
\* archive as they are.
C31_YearlyPromotion == [][YearlyPassStep => YearlyPromotion]_vars

\* the year 2024 was summarised from 10 Monthly Summaries, which are still in
\* monthly/
C31_Witness ==
    /\ pc = "size"
    /\ 2024 \in DOMAIN yearly[cur]
    /\ user_stats.yearly_summaries = 1
    /\ Cardinality({m \in DOMAIN monthly[cur] : m[1] = 2024}) = 10

-----------------------------------------------------------------------------
(***************************************************************************)
(* Historical files (SpecLoad)                                             *)
(***************************************************************************)
\* the selected paths at which user 1's directory has a file, in the order
\* returned
ExistingSelected ==
    LET Exists(path) == PathExists(1, path)
    IN  SelectSeq(loadResult.historical_files, Exists)

\* what the always-included set has left of the budget
RemainingBudget == MAX_MEMORY_TOKENS_GLM4 - AlwaysIncludedTokens

\* load_context has called _load_historical_files: the budget left was at
\* least the floor and the query was not trivial
HistoryLoaded ==
    /\ loadResult.state = "returned"
    /\ RemainingBudget >= MinRemainingTokens
    /\ queryLen > TrivialQueryLen

\* C32: Historical files are loaded whole and as a prefix.  The files added
\* to additional_context are the first existing files of the returned
\* selection, in its order and each with its whole estimate; the file after
\* the last loaded one, if there is one, would exceed the remaining budget
\* and no file after it is loaded; the estimates of the loaded files never
\* exceed the remaining budget.
C32_WholePrefix ==
    HistoryLoaded =>
        LET added == loadResult.additional_context
            n == Len(added)
        IN  /\ n <= Len(ExistingSelected)
            /\ added = SubSeq(ExistingSelected, 1, n)
            /\ PathTokens(1, added) <= RemainingBudget
            /\ n < Len(ExistingSelected) =>
                  PathTokens(1, added)
                  + (PathChars(1, ExistingSelected[n + 1]) \div TOKEN_ESTIMATION_RATIO)
                  > RemainingBudget

\* the first selected file does not fit, a later one would, nothing is added
C32_Witness ==
    /\ HistoryLoaded
    /\ Len(ExistingSelected) = 2
    /\ PathChars(1, ExistingSelected[1]) \div TOKEN_ESTIMATION_RATIO > RemainingBudget
    /\ PathChars(1, ExistingSelected[2]) \div TOKEN_ESTIMATION_RATIO <= RemainingBudget
    /\ loadResult.additional_context = << >>

\* C33: load_context never raises.  Whatever the completion service does
\* and whatever names the stored files have, load_context returns a context
\* and lets no exception out.
C33_NeverRaises ==
    loadResult.state # "raised"

\* the list of files _select_relevant_files offers to the completion
\* service: the files of daily/, weekly/ and monthly/ of the user
available_files(u) ==
    {<<"daily", d>> : d \in DOMAIN daily[u]}
    \cup {<<"weekly", k>> : k \in DOMAIN weekly[u]}
    \cup {<<"monthly", k>> : k \in DOMAIN monthly[u]}

\* the files of the always-included set of a returned context
AlwaysIncluded ==
    {<<"daily", loadResult.recent_days[i]>> : i \in 1..Len(loadResult.recent_days)}
    \cup (IF loadResult.memory_index THEN {IndexPath} ELSE {})

\* C38: Only offered files are loaded.  Every file of additional_context
\* was in the list offered to the completion service for that user, and
\* none of them is a file of the always-included set.
C38_OnlyOfferedFiles ==
    loadResult.state = "returned" =>
        \A i \in 1..Len(loadResult.additional_context) :
            /\ loadResult.additional_context[i] \in available_files(1)
            /\ loadResult.additional_context[i] \notin AlwaysIncluded

-----------------------------------------------------------------------------
(***************************************************************************)
(* Repeated soft trims                                                     *)
(***************************************************************************)
\* A Daily File is written on its own date by append_message; only a
\* successful soft trim writes it on a later day.
TrimmedBefore(u, d) == daily[u][d].mtime > d

\* C34: Soft-trim is not repeated.  When the scheduler is about to run the
\* soft-trim pass for a user, no Daily File that a soft trim of an earlier
\* run has rewritten is among the files it hands to soft_trim.
C34_SoftTrimNotRepeated ==
    pc = "trim" => \A d \in SoftTrimCandidates(cur) : ~TrimmedBefore(cur, d)

-----------------------------------------------------------------------------
(***************************************************************************)
(* Archived Daily Files and their summaries                                *)
(***************************************************************************)
\* the identities at which the user has a Weekly Summary, active or archived
SummarizedWeeks(u) ==
    DOMAIN weekly[u] \cup DOMAIN archive[u].weekly \cup DOMAIN archive[u].weeklyGz

\* C35: Archive only after summarization.  Every Daily File below
\* archive/daily, plain or compressed, has a Weekly Summary at the
\* (year, week) key of its date, in weekly/ or in archive/weekly.
C35_ArchivedAreSummarized ==
    \A u \in Users : \A d \in ArchivedNames(archive[u]) :
        week_key(d) \in SummarizedWeeks(u)

-----------------------------------------------------------------------------
(***************************************************************************)
(* Statistics of a run                                                     *)
(***************************************************************************)
\* A run's count so far: what run_daily_cleanup has added up for the users
\* it is done with, and what _cleanup_user has counted for the user it is
\* working on (its dict is filled from the soft-trim pass on).
InUser(p) == p \notin {"idle", "loop", "trim"}
CountedWeekly(st, us, p) ==
    st.weekly_summaries_created + (IF InUser(p) THEN us.weekly_summaries ELSE 0)
CountedArchived(st, us, p) ==
    st.files_archived + (IF InUser(p) THEN us.archived ELSE 0)

\* the files a step writes into weekly/ and the files it moves into archive/
WeeklyWrites ==
    {<<u, k>> \in Users \X UNION {DOMAIN weekly'[v] : v \in Users} :
        /\ k \in DOMAIN weekly'[u]
        /\ k \notin DOMAIN weekly[u] \/ weekly'[u][k] # weekly[u][k]}
DailyMoves ==
    {<<u, d>> \in Users \X UNION {DOMAIN archive'[v].daily : v \in Users} :
        /\ d \in DOMAIN archive'[u].daily
        /\ d \notin DOMAIN archive[u].daily \/ archive'[u].daily[d] # archive[u].daily[d]}
WeeklyMoves ==
    {<<u, k>> \in Users \X UNION {DOMAIN archive'[v].weekly : v \in Users} :
        /\ k \in DOMAIN archive'[u].weekly
        /\ k \notin DOMAIN archive[u].weekly \/ archive'[u].weekly[k] # archive[u].weekly[k]}

\* a step of a run in which no exception leaves _cleanup_user
Counts == pc # "idle" /\ pc' # "idle" /\ stats'.errors = stats.errors

StatsFollow ==
    Counts =>
        /\ CountedWeekly(stats', user_stats', pc')
              = CountedWeekly(stats, user_stats, pc) + Cardinality(WeeklyWrites)
        /\ CountedArchived(stats', user_stats', pc')
              = CountedArchived(stats, user_stats, pc)
                + Cardinality(DailyMoves) + Cardinality(WeeklyMoves)

\* C37: Statistics match what the run did.  In every step of a run that
\* ends without an exception, the
\* count of weekly_summaries_created grows by the number of Weekly Summary
\* files the step writes and the count of files_archived by the number of
\* files the step moves into archive/, the emergency compaction included,
\* so that the dict run_daily_cleanup returns holds the totals of the run.
C37_StatsMatch == [][StatsFollow]_vars

-----------------------------------------------------------------------------
(***************************************************************************)
(* Properties of create_user, migrate_from_v1 and append_message (SpecMem) *)
(***************************************************************************)
\* the last call was a migrate_from_v1 that returned True for a V1 user
MigratedV1 ==
    /\ mmResult.op = "migrate"
    /\ mmResult.returned = "true"
    /\ mmResult.before.memory = "v1"
    /\ ~mmResult.before.v2

\* C39: Migration leaves a complete V2 user.  After migrate_from_v1 has
\* returned True for a V1 user the V2 folders exist, the backup of the V1
\* memory exists and memory.md exists, so that user_exists is True; an
\* append_message that follows does not initialize the user again.
C39_MigrationComplete ==
    /\ MigratedV1 => /\ is_v2(udir)
                     /\ udir.backup
                     /\ udir.backup_log = mmResult.before.v1log
                     /\ user_exists(udir)
    /\ mmResult.prev = "migrated" => mmResult.op # "append_init"

IsPrefixOf(a, b) == Len(a) <= Len(b) /\ a = SubSeq(b, 1, Len(a))

AppendStep ==
    /\ mmResult'.calls = mmResult.calls + 1
    /\ mmResult'.op \in {"append", "append_init"}

AppendKeeps ==
    AppendStep =>
        \A date \in DOMAIN udir.files :
            /\ date \in DOMAIN udir'.files
            /\ IsPrefixOf(udir.files[date], udir'.files[date])

\* C36: Daily Files are append-only.  Whatever calls of create_user,
\* migrate_from_v1 and append_message came before, an append_message, with
\* or without auto-initialization, leaves the content every Daily File had
\* as a prefix of its content afterwards.
C36_AppendOnly == [][AppendKeeps]_vars

-----------------------------------------------------------------------------
(***************************************************************************)
(* Retried promotion (SpecRetry)                                           *)
(***************************************************************************)
\* the identities a Daily File of the model can have
RetryKeys == {week_key(d) : d \in 0..MaxDay}

\* the weekly pass has just run for user 1 and group k is still a candidate:
\* the creation of its summary has failed
FailedPromotion(k) == pc = "monthly" /\ cur = 1 /\ k \in WeeklyCandidates(1)

\* the summary of group k exists and no member is left in daily/
Promoted(k) ==
    /\ k \in SummarizedWeeks(1)
    /\ WeekFiles(1, k) = {}

\* the weekly pass has just run for user 1 and no creation has failed
AllCreated == pc = "monthly" /\ cur = 1 /\ WeeklyCandidates(1) = {}

\* C40: A failed promotion is retried.  When the weekly pass has left a
\* group that was due in daily/ because the creation of its summary failed,
\* then, with the daily job repeated and a completion service that succeeds
\* again and again, the summary is eventually written and no member is left
\* in daily/.
C40_FailedPromotionRetried ==
    ([]<>AllCreated) => (\A k \in RetryKeys : FailedPromotion(k) ~> Promoted(k))

====
